---- MODULE Spec2Model ----
(***************************************************************************)
(* Model of the DSA dashboard's reconciliation engine                      *)
(* (src/dsa_dashboard.py): identifier normalisation, Report 1 (qualified   *)
(* customers), Report 2 (no-onboarding customers), the payment report and  *)
(* the date filtering of the exports.                                      *)
(*                                                                         *)
(* Text values (identifiers, type codes, amounts) are tuples of            *)
(* one-character strings, so that digit filtering, stripping and case      *)
(* folding are computed character by character as the Python code does.    *)
(* A missing CSV cell (pandas NaN) is the value NaN below.                 *)
(***************************************************************************)
EXTENDS Integers, Sequences, FiniteSets, TLC

VARIABLES
    raw,            \* SpecNorm: the raw identifier being typed
    fn,             \* SpecNorm: the normaliser applied ("none" before any)
    once,           \* SpecNorm: fn(raw)
    twice,          \* SpecNorm: fn(fn(raw))
    onboarding_df,  \* uploaded onboarding rows (customer_mobile, dsa_mobile, full_name)
    deposit_df,     \* uploaded deposit rows (User Identifier, Created By, Transaction Type)
    ticket_df,      \* uploaded ticket rows (User Identifier, Entity Name, Transaction Type, Amount)
    scan_df,        \* uploaded scan rows (Created By, Transaction Type, Amount)
    report_1_data,  \* st.session_state.report_1_data
    report_2_data,  \* st.session_state.report_2_data
    payment_report, \* main(): the ledger generate_payment_report returned
    payment_report_data, \* st.session_state.payment_report_data
    dated_df,       \* SpecDate: an export with a date column
    date_range,     \* SpecDate: the start and end date of the sidebar
    df_filtered     \* SpecDate: the export after the date filtering

vars == <<raw, fn, once, twice, onboarding_df, deposit_df, ticket_df, scan_df,
          report_1_data, report_2_data, payment_report, payment_report_data,
          dated_df, date_range, df_filtered>>

normVars == <<raw, fn, once, twice>>
dateVars == <<dated_df, date_range, df_filtered>>
dataVars == <<onboarding_df, deposit_df, ticket_df, scan_df,
              report_1_data, report_2_data, payment_report, payment_report_data,
              dated_df, date_range, df_filtered>>

----------------------------------------------------------------------------
(* Python values *)

\* pandas NaN / None: what pd.isna() answers True for
NaN == <<"NaN">>

\* a variable no handler has assigned yet
Unset == <<"Unset">>

isna(x) == x = NaN

Digits == {"0", "1", "2", "3", "4", "5", "6", "7", "8", "9"}

\* str.isdigit on one character
isdigit(ch) == ch \in Digits

RECURSIVE FilterSeq(_, _)
FilterSeq(s, keep) ==
    IF s = <<>> THEN <<>>
    ELSE IF Head(s) \in keep THEN <<Head(s)>> \o FilterSeq(Tail(s), keep)
         ELSE FilterSeq(Tail(s), keep)

\* ''.join(filter(str.isdigit, s))
DigitsOf(s) == FilterSeq(s, Digits)

\* s[-n:] for Len(s) >= n
LastN(s, n) == SubSeq(s, Len(s) - n + 1, Len(s))

\* s.startswith(p)
startswith(s, p) == Len(s) >= Len(p) /\ SubSeq(s, 1, Len(p)) = p

\* str(x): a text cell is itself, NaN prints as "nan"
str(x) == IF isna(x) THEN <<"n", "a", "n">> ELSE x

\* Python's None where a column name is expected (find_column found none)
None == <<"None">>

\* None returned by a report function, and the {} a session entry starts as
ReportNone == [none |-> TRUE]
EmptyDict == [empty |-> TRUE]

UpperLetters ==
    <<"A", "B", "C", "D", "E", "F", "G", "H", "I", "J", "K", "L", "M",
      "N", "O", "P", "Q", "R", "S", "T", "U", "V", "W", "X", "Y", "Z">>

LowerLetters ==
    <<"a", "b", "c", "d", "e", "f", "g", "h", "i", "j", "k", "l", "m",
      "n", "o", "p", "q", "r", "s", "t", "u", "v", "w", "x", "y", "z">>

ToUpper ==
    [ch \in {LowerLetters[i] : i \in 1..26} |->
        UpperLetters[CHOOSE i \in 1..26 : LowerLetters[i] = ch]]

ToLower ==
    [ch \in {UpperLetters[i] : i \in 1..26} |->
        LowerLetters[CHOOSE i \in 1..26 : UpperLetters[i] = ch]]

\* str.upper() and str.lower()
upper(s) == [i \in 1..Len(s) |-> IF s[i] \in DOMAIN ToUpper THEN ToUpper[s[i]] ELSE s[i]]
lower(s) == [i \in 1..Len(s) |-> IF s[i] \in DOMAIN ToLower THEN ToLower[s[i]] ELSE s[i]]

\* str.strip(): the only white space the model's texts contain is the blank
RECURSIVE lstrip(_)
lstrip(s) == IF s # <<>> /\ Head(s) = " " THEN lstrip(Tail(s)) ELSE s

RECURSIVE rstrip(_)
rstrip(s) ==
    IF s # <<>> /\ s[Len(s)] = " " THEN rstrip(SubSeq(s, 1, Len(s) - 1)) ELSE s

strip(s) == rstrip(lstrip(s))

\* needle in hay (Python's substring test)
contains(hay, needle) ==
    \E i \in 1..(Len(hay) - Len(needle) + 1) :
        SubSeq(hay, i, i + Len(needle) - 1) = needle

\* Code points of the characters the model's texts use, in ascending order
CodePoints ==
    <<" ", "+", ",", "-", ".">> \o
    <<"0", "1", "2", "3", "4", "5", "6", "7", "8", "9">> \o
    UpperLetters \o <<"_">> \o LowerLetters

Ord == [ch \in {CodePoints[i] : i \in DOMAIN CodePoints} |->
            CHOOSE i \in DOMAIN CodePoints : CodePoints[i] = ch]

\* a < b for Python strings (lexicographic by code point)
RECURSIVE StrLess(_, _)
StrLess(a, b) ==
    IF b = <<>> THEN FALSE
    ELSE IF a = <<>> THEN TRUE
    ELSE IF Head(a) = Head(b) THEN StrLess(Tail(a), Tail(b))
    ELSE Ord[Head(a)] < Ord[Head(b)]

Range(s) == {s[i] : i \in DOMAIN s}

\* series.astype(str).str.strip(), cell by cell (both branches of the code agree)
safe_str_access(cell) == strip(str(cell))

\* str.replace(old, ''): every occurrence of old removed, left to right
RECURSIVE remove(_, _)
remove(s, old) ==
    IF s = <<>> THEN <<>>
    ELSE IF startswith(s, old) THEN remove(SubSeq(s, Len(old) + 1, Len(s)), old)
    ELSE <<Head(s)>> \o remove(Tail(s), old)

RECURSIVE DecimalValue(_)
DecimalValue(s) ==
    IF s = <<>> THEN 0
    ELSE 10 * DecimalValue(SubSeq(s, 1, Len(s) - 1)) + (Ord[s[Len(s)]] - Ord["0"])

AllDigits(s) == s # <<>> /\ \A i \in DOMAIN s : isdigit(s[i])

\* float(text) succeeds: the amounts of the model are whole numbers with an
\* optional sign; on any other text float() raises ValueError
IsFloat(s) ==
    \/ AllDigits(s)
    \/ s # <<>> /\ Head(s) \in {"-", "+"} /\ AllDigits(Tail(s))

float(s) ==
    IF AllDigits(s) THEN DecimalValue(s)
    ELSE IF Head(s) = "-" THEN 0 - DecimalValue(Tail(s))
    ELSE DecimalValue(Tail(s))

clean_currency_amount(amount) ==
    IF isna(amount) THEN 0
    ELSE LET amount_clean == strip(remove(remove(remove(str(amount), <<"G", "M", "D">>), <<",">>), <<" ">>))
         IN  IF IsFloat(amount_clean) THEN float(amount_clean) ELSE 0

\* the first of possible_names that is a column of the frame, else None
RECURSIVE find_column(_, _)
find_column(columns, possible_names) ==
    IF possible_names = <<>> THEN None
    ELSE IF Head(possible_names) \in Range(columns) THEN Head(possible_names)
    ELSE find_column(columns, Tail(possible_names))

----------------------------------------------------------------------------
(* Identifier normalisers *)

CanonicalLen == 7

clean_mobile_number(mobile) ==
    IF isna(mobile) THEN NaN
    ELSE LET mobile_clean == DigitsOf(str(mobile))
         IN  IF Len(mobile_clean) = CanonicalLen THEN mobile_clean
             ELSE IF Len(mobile_clean) > CanonicalLen
                  THEN LastN(mobile_clean, CanonicalLen)
                  ELSE mobile_clean

CountryCode == <<"2", "2", "0">>

clean_mobile_for_report2(mobile) ==
    IF isna(mobile) THEN NaN
    ELSE LET digits == DigitsOf(str(mobile))
             mobile_clean == IF startswith(digits, CountryCode)
                             THEN SubSeq(digits, Len(CountryCode) + 1, Len(digits))
                             ELSE digits
         IN  IF Len(mobile_clean) >= CanonicalLen
             THEN LastN(mobile_clean, CanonicalLen)
             ELSE IF mobile_clean # <<>> THEN mobile_clean ELSE NaN

Normalizers == {"clean_mobile_number", "clean_mobile_for_report2"}

normalize(f, x) ==
    IF f = "clean_mobile_number" THEN clean_mobile_number(x)
    ELSE clean_mobile_for_report2(x)

----------------------------------------------------------------------------
(* Frames.  A frame is [columns |-> headers, rows |-> rows], a row a        *)
(* function from header to cell.  The result rows carry the identifiers,    *)
(* counts, amounts and payments; the full_name cells are not copied into    *)
(* them, and the optional conversion feed is an empty frame.                *)

RECURSIVE SumSeq(_)
SumSeq(s) == IF s = <<>> THEN 0 ELSE Head(s) + SumSeq(Tail(s))

\* series.unique(): the distinct values in order of first appearance
RECURSIVE unique(_)
unique(s) ==
    IF s = <<>> THEN <<>>
    ELSE LET u == unique(SubSeq(s, 1, Len(s) - 1))
         IN  IF s[Len(s)] \in Range(u) THEN u ELSE Append(u, s[Len(s)])

\* ka < kb for sort keys (tuples of texts compared left to right)
RECURSIVE KeyLess(_, _)
KeyLess(ka, kb) ==
    IF ka = <<>> \/ kb = <<>> THEN FALSE
    ELSE IF Head(ka) = Head(kb) THEN KeyLess(Tail(ka), Tail(kb))
    ELSE StrLess(Head(ka), Head(kb))

RECURSIVE InsertSorted(_, _)
InsertSorted(item, sorted) ==
    IF sorted = <<>> THEN <<item>>
    ELSE IF ~KeyLess(Head(sorted).key, item.key) THEN <<item>> \o sorted
    ELSE <<Head(sorted)>> \o InsertSorted(item, Tail(sorted))

\* items ([key, val]) in ascending key order; equal keys keep their order
RECURSIVE SortItems(_)
SortItems(items) ==
    IF items = <<>> THEN <<>>
    ELSE InsertSorted(items[1], SortItems(Tail(items)))

\* the sort items of rows keyed by customer, and the rows of sorted items
ByCustomer(rows) ==
    [i \in DOMAIN rows |-> [key |-> <<rows[i].customer_mobile>>, val |-> rows[i]]]

Values(items) == [i \in DOMAIN items |-> items[i].val]

\* a number in a result cell, and the empty text '' of a detail row
Num(n) == <<n>>
Blank == <<>>

\* the headers of the four exports the specification uploads
OnboardingColumns == <<<<"c", "u", "s", "t", "o", "m", "e", "r", "_", "m", "o", "b", "i", "l", "e">>, <<"d", "s", "a", "_", "m", "o", "b", "i", "l", "e">>, <<"f", "u", "l", "l", "_", "n", "a", "m", "e">>>>
DepositColumns == <<<<"U", "s", "e", "r", " ", "I", "d", "e", "n", "t", "i", "f", "i", "e", "r">>, <<"C", "r", "e", "a", "t", "e", "d", " ", "B", "y">>, <<"T", "r", "a", "n", "s", "a", "c", "t", "i", "o", "n", " ", "T", "y", "p", "e">>>>
TicketColumns == <<<<"U", "s", "e", "r", " ", "I", "d", "e", "n", "t", "i", "f", "i", "e", "r">>, <<"E", "n", "t", "i", "t", "y", " ", "N", "a", "m", "e">>, <<"T", "r", "a", "n", "s", "a", "c", "t", "i", "o", "n", " ", "T", "y", "p", "e">>, <<"A", "m", "o", "u", "n", "t">>>>
ScanColumns == <<<<"C", "r", "e", "a", "t", "e", "d", " ", "B", "y">>, <<"T", "r", "a", "n", "s", "a", "c", "t", "i", "o", "n", " ", "T", "y", "p", "e">>, <<"A", "m", "o", "u", "n", "t">>>>

\* the headers the platform's onboarding export carries
OnboardingExportColumns == <<<<"M", "o", "b", "i", "l", "e">>, <<"C", "u", "s", "t", "o", "m", "e", "r", " ", "R", "e", "f", "e", "r", "r", "e", "r", " ", "M", "o", "b", "i", "l", "e">>, <<"f", "u", "l", "l", "_", "n", "a", "m", "e">>>>

\* headers of an onboarding export that name neither identifier as the
\* reports expect it
OnboardingOtherColumns == <<<<"P", "h", "o", "n", "e">>, <<"R", "e", "f", "e", "r", "r", "e", "r">>, <<"f", "u", "l", "l", "_", "n", "a", "m", "e">>>>

\* ticket_df.columns = [...]: the names process_report_1 gives the columns of
\* a ticket export of 29 columns, by position
r1_ticket_export_columns ==
    <<<<"u", "s", "e", "r", "_", "i", "d">>, <<"t", "r", "a", "n", "s", "a", "c", "t", "i", "o", "n", "_", "i", "d">>, <<"s", "u", "b", "_", "t", "r", "a", "n", "s", "a", "c", "t", "i", "o", "n", "_", "i", "d">>, <<"e", "n", "t", "i", "t", "y", "_", "n", "a", "m", "e">>,
      <<"f", "u", "l", "l", "_", "n", "a", "m", "e">>, <<"c", "r", "e", "a", "t", "e", "d", "_", "b", "y">>, <<"s", "t", "a", "t", "u", "s">>, <<"i", "n", "t", "e", "r", "n", "a", "l", "_", "s", "t", "a", "t", "u", "s">>, <<"s", "e", "r", "v", "i", "c", "e", "_", "n", "a", "m", "e">>,
      <<"p", "r", "o", "d", "u", "c", "t", "_", "n", "a", "m", "e">>, <<"t", "r", "a", "n", "s", "a", "c", "t", "i", "o", "n", "_", "t", "y", "p", "e">>, <<"a", "m", "o", "u", "n", "t">>, <<"b", "e", "f", "o", "r", "e", "_", "b", "a", "l", "a", "n", "c", "e">>,
      <<"a", "f", "t", "e", "r", "_", "b", "a", "l", "a", "n", "c", "e">>, <<"u", "c", "p", "_", "n", "a", "m", "e">>, <<"w", "a", "l", "l", "e", "t", "_", "n", "a", "m", "e">>, <<"p", "o", "u", "c", "h", "_", "n", "a", "m", "e">>, <<"r", "e", "f", "e", "r", "e", "n", "c", "e">>,
      <<"e", "r", "r", "o", "r", "_", "c", "o", "d", "e">>, <<"e", "r", "r", "o", "r", "_", "m", "e", "s", "s", "a", "g", "e">>, <<"v", "e", "n", "d", "o", "r", "_", "t", "r", "a", "n", "s", "a", "c", "t", "i", "o", "n", "_", "i", "d">>,
      <<"v", "e", "n", "d", "o", "r", "_", "r", "e", "s", "p", "o", "n", "s", "e", "_", "c", "o", "d", "e">>, <<"v", "e", "n", "d", "o", "r", "_", "m", "e", "s", "s", "a", "g", "e">>, <<"s", "l", "u", "g">>, <<"r", "e", "m", "a", "r", "k", "s">>,
      <<"c", "r", "e", "a", "t", "e", "d", "_", "a", "t">>, <<"b", "u", "s", "i", "n", "e", "s", "s", "_", "h", "i", "e", "r", "a", "r", "c", "h", "y">>, <<"p", "a", "r", "e", "n", "t", "_", "u", "s", "e", "r", "_", "i", "d">>, <<"p", "a", "r", "e", "n", "t", "_", "f", "u", "l", "l", "_", "n", "a", "m", "e">>>>

TicketExportWidth == 29

\* the headers of a ticket export of 29 columns as the platform writes them
TicketExportColumns ==
    <<<<"U", "s", "e", "r", " ", "I", "d", "e", "n", "t", "i", "f", "i", "e", "r">>, <<"T", "r", "a", "n", "s", "a", "c", "t", "i", "o", "n", " ", "I", "D">>, <<"S", "u", "b", " ", "T", "r", "a", "n", "s", "a", "c", "t", "i", "o", "n", " ", "I", "D">>, <<"E", "n", "t", "i", "t", "y", " ", "N", "a", "m", "e">>,
      <<"F", "u", "l", "l", " ", "N", "a", "m", "e">>, <<"C", "r", "e", "a", "t", "e", "d", " ", "B", "y">>, <<"S", "t", "a", "t", "u", "s">>, <<"I", "n", "t", "e", "r", "n", "a", "l", " ", "S", "t", "a", "t", "u", "s">>, <<"S", "e", "r", "v", "i", "c", "e", " ", "N", "a", "m", "e">>,
      <<"P", "r", "o", "d", "u", "c", "t", " ", "N", "a", "m", "e">>, <<"T", "r", "a", "n", "s", "a", "c", "t", "i", "o", "n", " ", "T", "y", "p", "e">>, <<"A", "m", "o", "u", "n", "t">>, <<"B", "e", "f", "o", "r", "e", " ", "B", "a", "l", "a", "n", "c", "e">>,
      <<"A", "f", "t", "e", "r", " ", "B", "a", "l", "a", "n", "c", "e">>, <<"U", "C", "P", " ", "N", "a", "m", "e">>, <<"W", "a", "l", "l", "e", "t", " ", "N", "a", "m", "e">>, <<"P", "o", "u", "c", "h", " ", "N", "a", "m", "e">>, <<"R", "e", "f", "e", "r", "e", "n", "c", "e">>,
      <<"E", "r", "r", "o", "r", " ", "C", "o", "d", "e">>, <<"E", "r", "r", "o", "r", " ", "M", "e", "s", "s", "a", "g", "e">>, <<"V", "e", "n", "d", "o", "r", " ", "T", "r", "a", "n", "s", "a", "c", "t", "i", "o", "n", " ", "I", "D">>,
      <<"V", "e", "n", "d", "o", "r", " ", "R", "e", "s", "p", "o", "n", "s", "e", " ", "C", "o", "d", "e">>, <<"V", "e", "n", "d", "o", "r", " ", "M", "e", "s", "s", "a", "g", "e">>, <<"S", "l", "u", "g">>, <<"R", "e", "m", "a", "r", "k", "s">>,
      <<"C", "r", "e", "a", "t", "e", "d", " ", "A", "t">>, <<"B", "u", "s", "i", "n", "e", "s", "s", " ", "H", "i", "e", "r", "a", "r", "c", "h", "y">>, <<"P", "a", "r", "e", "n", "t", " ", "U", "s", "e", "r", " ", "I", "d", "e", "n", "t", "i", "f", "i", "e", "r">>,
      <<"P", "a", "r", "e", "n", "t", " ", "F", "u", "l", "l", " ", "N", "a", "m", "e">>>>

Schemas == {OnboardingColumns, DepositColumns, TicketColumns, ScanColumns,
            OnboardingExportColumns, TicketExportColumns, r1_ticket_export_columns,
            OnboardingOtherColumns}

\* the rows the specification draws the exports from
\* a row of a frame: the cells in column order
Row(columns, cells) == [col \in Range(columns) |->
                            cells[CHOOSE i \in DOMAIN columns : columns[i] = col]]

OnboardingRows ==
    { Row(OnboardingColumns, cells) : cells \in
        { <<<<"1", "2", "3", "4", "5", "6", "7">>, <<"7", "6", "5", "4", "3", "2", "1">>, <<"A", "w", "a">>>>,
          <<<<"9", "9", "9", "9", "9", "9", "9">>, <<"7", "6", "5", "4", "3", "2", "1">>, <<"B", "a", "b", "a">>>>,
          <<<<"1", "2", "3", "4", "5", "6", "7">>, NaN, <<"A", "w", "a">>>> } }

DepositRows ==
    { Row(DepositColumns, cells) : cells \in
        { <<<<"+", "2", "2", "0", " ", "1", "2", "3", "-", "4", "5", "6", "7">>, <<"7", "6", "5", "4", "3", "2", "1">>, <<"C", "R">>>>,
          <<<<"1", "2", "3", "4", "5", "6", "7">>, <<"9", "9", "9", "9", "9", "9", "9">>, <<"C", "R">>>>,
          <<<<"9", "9", "9", "9", "9", "9", "9">>, <<"7", "6", "5", "4", "3", "2", "1">>, <<"C", "R">>>>,
          <<<<"7", "6", "5", "4", "3", "2", "1">>, <<"7", "6", "5", "4", "3", "2", "1">>, <<"C", "R">>>>,
          <<NaN, <<"7", "6", "5", "4", "3", "2", "1">>, <<"C", "R">>>> } }

TicketRows ==
    { Row(TicketColumns, cells) : cells \in
        { <<<<"1", "2", "3", "4", "5", "6", "7">>, <<"C", "u", "s", "t", "o", "m", "e", "r">>, <<"D", "R">>, <<"5", "0">>>>,
          <<<<"0", "0", "0", "1", "2", "3", "4", "5", "6", "7">>, <<"C", "u", "s", "t", "o", "m", "e", "r">>, <<"D", "R">>, <<"G", "M", "D", " ", "5", "0">>>> } }

ScanRows ==
    { Row(ScanColumns, cells) : cells \in
        { <<<<"9", "9", "9", "9", "9", "9", "9">>, <<"D", "R">>, <<"2", "0">>>> } }

\* the cells of the rows the export specification draws: an onboarding row is
\* (customer, agent, name), a deposit row (customer, agent, type), a ticket
\* row (customer, entity, type, amount), a scan row (customer, type, amount)
OnboardingExportCells ==
    { <<<<"1", "2", "3", "4", "5", "6", "7">>, <<"7", "6", "5", "4", "3", "2", "1">>, <<"A", "w", "a">>>>,
      <<<<"9", "9", "9", "9", "9", "9", "9">>, <<"7", "6", "5", "4", "3", "2", "1">>, <<"B", "a", "b", "a">>>> }

DepositExportCells ==
    { <<<<"1", "2", "3", "4", "5", "6", "7">>, <<"7", "6", "5", "4", "3", "2", "1">>, <<"C", "R">>>>,
      <<<<"1", "2", "3", "4", "5", "6", "7">>, <<"9", "9", "9", "9", "9", "9", "9">>, <<"C", "R">>>>,
      <<<<"1", "2", "3", "4", "5", "6", "7">>, <<"7", "6", "5", "4", "3", "2", "1">>, <<"D", "R">>>>,
      <<<<"1", "2", "3", "4", "5", "6", "7">>, <<"7", "6", "5", "4", "3", "2", "1">>, <<"D">>>> }

TicketExportCells ==
    { <<<<"1", "2", "3", "4", "5", "6", "7">>, <<"C", "u", "s", "t", "o", "m", "e", "r">>, <<"D", "R">>, <<"5", "0">>>>,
      <<<<"1", "2", "3", "4", "5", "6", "7">>, <<"C", "u", "s", "t", "o", "m", "e", "r">>, <<"C", "R">>, <<"5", "0">>>>,
      <<<<"1", "2", "3", "4", "5", "6", "7">>, <<"M", "e", "r", "c", "h", "a", "n", "t">>, <<"D", "R">>, <<"5", "0">>>> }

ScanExportCells ==
    { <<<<"1", "2", "3", "4", "5", "6", "7">>, <<"D", "R">>, <<"2", "0">>>>,
      <<<<"1", "2", "3", "4", "5", "6", "7">>, <<"C", "R">>, <<"2", "0">>>> }

Filler == <<"x">>

\* the cells of the agents specification: an agent written with the country
\* code in the onboarding export and plainly in the deposit export, and a
\* customer with onboarding records of two agents
OnboardingAgentCells ==
    { <<<<"1", "2", "3", "4", "5", "6", "7">>, <<"+", "2", "2", "0", " ", "7", "6", "5", "-", "4", "3", "2", "1">>, <<"A", "w", "a">>>>,
      <<<<"1", "2", "3", "4", "5", "6", "7">>, <<"9", "9", "9", "9", "9", "9", "9">>, <<"A", "w", "a">>>>,
      <<<<"9", "9", "9", "9", "9", "9", "9">>, <<"7", "6", "5", "4", "3", "2", "1">>, <<"B", "a", "b", "a">>>> }

DepositAgentCells ==
    { <<<<"1", "2", "3", "4", "5", "6", "7">>, <<"7", "6", "5", "4", "3", "2", "1">>, <<"C", "R">>>>,
      <<<<"9", "9", "9", "9", "9", "9", "9">>, <<"7", "6", "5", "4", "3", "2", "1">>, <<"C", "R">>>>,
      <<<<"1", "2", "3", "4", "5", "6", "7">>, <<"9", "9", "9", "9", "9", "9", "9">>, <<"C", "R">>>> }

\* the amount cells of the amounts specification: a purchase, a refund
\* written as a negative amount, and a text that is no number
TicketAmounts == {<<"5", "0">>, <<"-", "5", "0">>, <<"r", "e", "f", "u", "n", "d">>}
ScanAmounts == {<<"2", "0">>, <<"-", "2", "0">>}

\* a ticket row in the 29 columns of the export: the customer, the entity,
\* the type and the amount at their positions
TicketExportRow(cells) ==
    [i \in 1..TicketExportWidth |->
        CASE i = 1 -> cells[1]
          [] i = 4 -> cells[2]
          [] i = 11 -> cells[3]
          [] i = 12 -> cells[4]
          [] OTHER -> Filler]

\* pd.read_csv infers the type of a column from its cells: a column whose
\* cells are all integer literals is int64 (leading zeros are lost), one that
\* also has empty cells is float64 (the integers render as "n.0"), a column
\* with any other text is object and keeps its cells.  No cell of the exports
\* is a decimal literal.  A frame cell is the text str() renders, or NaN.
IsInteger(cell) == ~isna(cell) /\ cell # <<>> /\ AllDigits(cell)

RECURSIVE int_text(_)
int_text(cell) ==
    IF Len(cell) > 1 /\ Head(cell) = "0" THEN int_text(Tail(cell)) ELSE cell

float_text(cell) == int_text(cell) \o <<".", "0">>

read_csv(csv) ==
    LET Column(col) == {csv.rows[i][col] : i \in DOMAIN csv.rows}
        Numeric(col) == \A cell \in Column(col) : isna(cell) \/ IsInteger(cell)
        parsed(col, cell) ==
            IF isna(cell) \/ ~Numeric(col) THEN cell
            ELSE IF NaN \in Column(col) THEN float_text(cell)
            ELSE int_text(cell)
    IN  [columns |-> csv.columns,
         rows |-> [i \in DOMAIN csv.rows |->
                     [col \in Range(csv.columns) |-> parsed(col, csv.rows[i][col])]]]

\* The cleaning functions are applied cell by cell (Series.apply, .astype(str)
\* .str.strip()) and their result depends on the cell only; the results for
\* the cells the exports can hold are tabulated once.
Cells ==
    LET text == UNION {Range(row) : row \in OnboardingRows \cup DepositRows
                                              \cup TicketRows \cup ScanRows}
                    \cup UNION {Range(cells) : cells \in OnboardingExportCells
                                                  \cup DepositExportCells
                                                  \cup TicketExportCells
                                                  \cup ScanExportCells
                                                  \cup OnboardingAgentCells
                                                  \cup DepositAgentCells}
                    \cup {Filler} \cup TicketAmounts \cup ScanAmounts
        integers == {cell \in text : IsInteger(cell)}
    IN  text \cup {int_text(cell) : cell \in integers}
             \cup {float_text(cell) : cell \in integers}

clean_mobile_for_report2_of == [cell \in Cells |-> clean_mobile_for_report2(cell)]

safe_str_access_of == [cell \in Cells |-> safe_str_access(cell)]

clean_currency_amount_of == [cell \in Cells |-> clean_currency_amount(cell)]

----------------------------------------------------------------------------
(* Report 1: qualified customers (process_report_1) *)

r1_dsa_mobile_names ==
    <<<<"C", "u", "s", "t", "o", "m", "e", "r", " ", "R", "e", "f", "e", "r", "r", "e", "r", " ", "M", "o", "b", "i", "l", "e">>, <<"d", "s", "a", "_", "m", "o", "b", "i", "l", "e">>, <<"A", "g", "e", "n", "t", " ", "M", "o", "b", "i", "l", "e">>, <<"R", "e", "f", "e", "r", "r", "e", "r", " ", "M", "o", "b", "i", "l", "e">>>>

r1_customer_mobile_names ==
    <<<<"M", "o", "b", "i", "l", "e">>, <<"c", "u", "s", "t", "o", "m", "e", "r", "_", "m", "o", "b", "i", "l", "e">>, <<"C", "u", "s", "t", "o", "m", "e", "r", " ", "M", "o", "b", "i", "l", "e">>, <<"U", "s", "e", "r", " ", "M", "o", "b", "i", "l", "e">>>>

r1_deposit_customer_names ==
    <<<<"c", "u", "s", "t", "o", "m", "e", "r", "_", "m", "o", "b", "i", "l", "e">>, <<"C", "u", "s", "t", "o", "m", "e", "r", " ", "M", "o", "b", "i", "l", "e">>, <<"M", "o", "b", "i", "l", "e">>, <<"U", "s", "e", "r", " ", "I", "d", "e", "n", "t", "i", "f", "i", "e", "r">>,
      <<"u", "s", "e", "r", "_", "i", "d">>, <<"U", "s", "e", "r", " ", "I", "D">>>>

r1_ticket_customer_names ==
    <<<<"U", "s", "e", "r", " ", "I", "d", "e", "n", "t", "i", "f", "i", "e", "r">>, <<"u", "s", "e", "r", "_", "i", "d">>, <<"C", "r", "e", "a", "t", "e", "d", " ", "B", "y">>, <<"c", "r", "e", "a", "t", "e", "d", "_", "b", "y">>,
      <<"c", "u", "s", "t", "o", "m", "e", "r", "_", "m", "o", "b", "i", "l", "e">>, <<"C", "u", "s", "t", "o", "m", "e", "r", " ", "M", "o", "b", "i", "l", "e">>, <<"M", "o", "b", "i", "l", "e">>>>

r1_scan_customer_names ==
    <<<<"C", "r", "e", "a", "t", "e", "d", " ", "B", "y">>, <<"C", "u", "s", "t", "o", "m", "e", "r", " ", "M", "o", "b", "i", "l", "e">>, <<"M", "o", "b", "i", "l", "e">>, <<"U", "s", "e", "r", " ", "I", "d", "e", "n", "t", "i", "f", "i", "e", "r">>,
      <<"u", "s", "e", "r", "_", "i", "d">>, <<"c", "u", "s", "t", "o", "m", "e", "r", "_", "m", "o", "b", "i", "l", "e">>>>

r1_deposit_tx_type_names ==
    <<<<"t", "r", "a", "n", "s", "a", "c", "t", "i", "o", "n", "_", "t", "y", "p", "e">>, <<"T", "r", "a", "n", "s", "a", "c", "t", "i", "o", "n", " ", "T", "y", "p", "e">>, <<"T", "r", "a", "n", "s", "a", "c", "t", "i", "o", "n", "T", "y", "p", "e">>, <<"T", "y", "p", "e">>>>

r1_tx_type_names == <<<<"T", "r", "a", "n", "s", "a", "c", "t", "i", "o", "n", " ", "T", "y", "p", "e">>, <<"t", "r", "a", "n", "s", "a", "c", "t", "i", "o", "n", "_", "t", "y", "p", "e">>>>

r1_amount_names == <<<<"A", "m", "o", "u", "n", "t">>, <<"a", "m", "o", "u", "n", "t">>>>

r1_entity_name == <<"E", "n", "t", "i", "t", "y", " ", "N", "a", "m", "e">>

r1_credit_types == {<<"C", "R">>, <<"D", "E", "P", "O", "S", "I", "T">>, <<"C">>}

r1_debit_types == {<<"D", "R">>, <<"D", "E", "B", "I", "T">>, <<"D">>}

RateA == 40

\* the columns of the onboarding rows after the renames and the string
\* cleaning (a missing column is created as "Unknown")
r1_onboarding_cleaned(onb, dsa_mobile_col, customer_mobile_col) ==
    [i \in DOMAIN onb.rows |->
        [dsa_mobile |->
            IF dsa_mobile_col = None THEN safe_str_access(<<"U", "n", "k", "n", "o", "w", "n">>)
            ELSE safe_str_access_of[onb.rows[i][dsa_mobile_col]],
         customer_mobile |->
            IF customer_mobile_col = None THEN safe_str_access(<<"U", "n", "k", "n", "o", "w", "n">>)
            ELSE safe_str_access_of[onb.rows[i][customer_mobile_col]]]]

\* dropna(subset=["dsa_mobile"]) and the != '' filter
r1_has_dsa(row) == ~isna(row.dsa_mobile) /\ strip(str(row.dsa_mobile)) # <<>>

\* onboarding rows as (dsa_mobile, customer_mobile) after the renames, the
\* string cleaning and the removal of rows without a DSA
r1_onboarding(onb) ==
    SelectSeq(r1_onboarding_cleaned(onb,
                  find_column(onb.columns, r1_dsa_mobile_names),
                  find_column(onb.columns, r1_customer_mobile_names)),
              r1_has_dsa)

\* the deposit rows the CR filter keeps (all rows without a type column)
r1_credit_rows(dep, deposit_tx_type_col) ==
    LET IsCredit(row) ==
            upper(safe_str_access_of[row[deposit_tx_type_col]]) \in r1_credit_types
    IN  IF deposit_tx_type_col = None THEN dep.rows
        ELSE SelectSeq(dep.rows, IsCredit)

r1_deposit_customers(kept, deposit_customer_col) ==
    [i \in DOMAIN kept |->
        [customer_mobile |-> safe_str_access_of[kept[i][deposit_customer_col]]]]

\* deposit rows as (customer_mobile) after the CR filter
r1_deposit(dep, deposit_customer_col) ==
    r1_deposit_customers(
        r1_credit_rows(dep, find_column(dep.columns, r1_deposit_tx_type_names)),
        deposit_customer_col)

\* the rows the entity filter keeps, where the caller asks for it (tickets)
r1_entity_rows(df, entity_filter) ==
    LET IsCustomer(row) == lower(safe_str_access_of[row[r1_entity_name]]) = <<"c", "u", "s", "t", "o", "m", "e", "r">>
    IN  IF entity_filter /\ r1_entity_name \in Range(df.columns)
        THEN SelectSeq(df.rows, IsCustomer)
        ELSE df.rows

\* the rows the DR filter keeps (all rows without a type column)
r1_debit_rows(rows, tx_type_col) ==
    LET IsDebit(row) == upper(safe_str_access_of[row[tx_type_col]]) \in r1_debit_types
    IN  IF tx_type_col = None THEN rows ELSE SelectSeq(rows, IsDebit)

r1_activity_rows(kept, customer_col, amount_col) ==
    [i \in DOMAIN kept |->
        [customer_mobile |-> safe_str_access_of[kept[i][customer_col]],
         amount |-> IF amount_col = None THEN 0
                    ELSE clean_currency_amount_of[kept[i][amount_col]]]]

\* ticket or scan rows as (customer_mobile, amount) after the entity filter
\* and the DR filter
r1_activity(df, customer_col, entity_filter) ==
    r1_activity_rows(
        r1_debit_rows(r1_entity_rows(df, entity_filter),
                      find_column(df.columns, r1_tx_type_names)),
        customer_col,
        find_column(df.columns, r1_amount_names))

\* groupby("customer_mobile").agg(sum): the summed amount of one customer
r1_amount_of(activity, customer_mobile) ==
    LET Mine(row) == row.customer_mobile = customer_mobile
        mine == SelectSeq(activity, Mine)
    IN  SumSeq([i \in DOMAIN mine |-> mine[i].amount])

\* drop_duplicates(subset=["customer_mobile"]): the first row of each customer
r1_drop_duplicates(rows) ==
    LET First(i) == \A j \in 1..(i - 1) : rows[j].customer_mobile # rows[i].customer_mobile
        idx == SelectSeq([i \in DOMAIN rows |-> i], First)
    IN  [k \in DOMAIN idx |-> rows[idx[k]]]

r1_customers(rows) == {rows[i].customer_mobile : i \in DOMAIN rows}

\* the left merge with an aggregate and fillna(0): the customer's summed
\* amount, 0 for a customer without such rows
r1_merged_amount(activity, customer_mobile) ==
    IF customer_mobile \in r1_customers(activity)
    THEN r1_amount_of(activity, customer_mobile) ELSE 0

\* one onboarded customer with the activity columns and the flags
r1_merged_row(row, ticket_amount, scan_amount, deposits) ==
    [dsa_mobile |-> row.dsa_mobile,
     customer_mobile |-> row.customer_mobile,
     bought_ticket |-> IF ticket_amount > 0 THEN 1 ELSE 0,
     ticket_amount |-> ticket_amount,
     did_scan |-> IF scan_amount > 0 THEN 1 ELSE 0,
     scan_amount |-> scan_amount,
     deposited |-> IF row.customer_mobile \in r1_customers(deposits) THEN 1 ELSE 0]

r1_merge(first, deposits, tickets, scans) ==
    [i \in DOMAIN first |->
        r1_merged_row(first[i],
                      r1_merged_amount(tickets, first[i].customer_mobile),
                      r1_merged_amount(scans, first[i].customer_mobile),
                      deposits)]

\* the onboarded customers merged with their ticket, scan and deposit activity
r1_onboarded_customers(onboarding, deposits, tickets, scans) ==
    r1_merge(r1_drop_duplicates(onboarding), deposits, tickets, scans)

\* the three filters and the DSA check that make a customer qualified
r1_is_qualified(row) ==
    /\ row.deposited = 1
    /\ (row.bought_ticket = 1 \/ row.did_scan = 1)
    /\ (row.ticket_amount > 0 \/ row.scan_amount > 0)
    /\ strip(str(row.dsa_mobile)) # <<>>

r1_payment(customer_count) == customer_count * RateA

\* sum of a 0/1 column over the customers of a DSA
r1_sum(dsa_customers, column) ==
    SumSeq([i \in DOMAIN dsa_customers |-> dsa_customers[i][column]])

\* the rows of one DSA: the first carries the summary, the others blanks
r1_summary_rows(dsa_mobile, dsa_customers) ==
    [i \in DOMAIN dsa_customers |->
        [dsa_mobile |-> dsa_mobile,
         customer_mobile |-> dsa_customers[i].customer_mobile,
         bought_ticket |-> dsa_customers[i].bought_ticket,
         ticket_amount |-> dsa_customers[i].ticket_amount,
         did_scan |-> dsa_customers[i].did_scan,
         scan_amount |-> dsa_customers[i].scan_amount,
         deposited |-> dsa_customers[i].deposited,
         customer_count |-> IF i = 1 THEN Num(Len(dsa_customers)) ELSE Blank,
         deposit_count |-> IF i = 1 THEN Num(r1_sum(dsa_customers, "deposited")) ELSE Blank,
         ticket_count |-> IF i = 1 THEN Num(r1_sum(dsa_customers, "bought_ticket")) ELSE Blank,
         scan_count |-> IF i = 1 THEN Num(r1_sum(dsa_customers, "did_scan")) ELSE Blank,
         payment |-> IF i = 1 THEN Num(r1_payment(Len(dsa_customers))) ELSE Blank]]

\* the customers of one DSA in customer order
r1_dsa_rows(dsa_mobile, qualified) ==
    LET Mine(row) == row.dsa_mobile = dsa_mobile
    IN  r1_summary_rows(dsa_mobile,
            Values(SortItems(ByCustomer(SelectSeq(qualified, Mine)))))

RECURSIVE r1_result_rows(_, _)
r1_result_rows(dsas, qualified) ==
    IF dsas = <<>> THEN <<>>
    ELSE r1_dsa_rows(Head(dsas), qualified) \o r1_result_rows(Tail(dsas), qualified)

r1_by_dsa_and_customer(rows) ==
    [i \in DOMAIN rows |->
        [key |-> <<rows[i].dsa_mobile, rows[i].customer_mobile>>, val |-> rows[i]]]

\* the qualified customers, sorted by DSA and customer
r1_qualified_customers(onboarded_customers) ==
    Values(SortItems(r1_by_dsa_and_customer(
        SelectSeq(onboarded_customers, r1_is_qualified))))

r1_results(qualified_customers) ==
    r1_result_rows(unique([i \in DOMAIN qualified_customers |->
                              qualified_customers[i].dsa_mobile]),
                   qualified_customers)

r1_return(onboarded_customers) ==
    [qualified_customers |-> r1_results(r1_qualified_customers(onboarded_customers)),
     onboarded_customers |-> onboarded_customers]

r1_reports(onb, tkt, dep, scn, deposit_customer_col, ticket_customer_col, scan_customer_col) ==
    IF None \in {deposit_customer_col, ticket_customer_col, scan_customer_col}
    THEN ReportNone
    ELSE r1_return(r1_onboarded_customers(
            r1_onboarding(onb),
            r1_deposit(dep, deposit_customer_col),
            r1_activity(tkt, ticket_customer_col, TRUE),
            r1_activity(scn, scan_customer_col, FALSE)))

\* if ticket_df.shape[1] == 29: the columns of the caller's ticket frame are
\* renamed by position, in place
r1_fix_ticket_data(tkt) ==
    IF Len(tkt.columns) = TicketExportWidth
    THEN [columns |-> r1_ticket_export_columns,
          rows |-> [i \in DOMAIN tkt.rows |->
                      Row(r1_ticket_export_columns,
                          [j \in DOMAIN tkt.columns |-> tkt.rows[i][tkt.columns[j]]])]]
    ELSE tkt

r1_process(onb, tkt, dep, scn) ==
    r1_reports(onb, tkt, dep, scn,
               find_column(dep.columns, r1_deposit_customer_names),
               find_column(tkt.columns, r1_ticket_customer_names),
               find_column(scn.columns, r1_scan_customer_names))

process_report_1(onb, tkt, dep, scn) ==
    r1_process(onb, r1_fix_ticket_data(tkt), dep, scn)

----------------------------------------------------------------------------
(* Report 2: customers without onboarding (process_report_2) *)

r2_deposit_customer_options ==
    <<<<"U", "s", "e", "r", " ", "I", "d", "e", "n", "t", "i", "f", "i", "e", "r">>, <<"u", "s", "e", "r", "_", "i", "d">>, <<"U", "s", "e", "r", "I", "d", "e", "n", "t", "i", "f", "i", "e", "r">>, <<"C", "u", "s", "t", "o", "m", "e", "r", " ", "M", "o", "b", "i", "l", "e">>,
      <<"c", "u", "s", "t", "o", "m", "e", "r", "_", "m", "o", "b", "i", "l", "e">>, <<"M", "o", "b", "i", "l", "e">>, <<"U", "S", "E", "R", "_", "I", "D">>, <<"U", "s", "e", "r", " ", "I", "D">>, <<"U", "s", "e", "r", "I", "D">>,
      <<"c", "u", "s", "t", "o", "m", "e", "r", "_", "i", "d">>, <<"C", "u", "s", "t", "o", "m", "e", "r", "_", "I", "D">>, <<"U", "s", "e", "r">>, <<"C", "r", "e", "a", "t", "e", "d", " ", "B", "y">>, <<"c", "r", "e", "a", "t", "e", "d", "_", "b", "y">>>>

r2_deposit_dsa_options ==
    <<<<"C", "r", "e", "a", "t", "e", "d", " ", "B", "y">>, <<"c", "r", "e", "a", "t", "e", "d", "_", "b", "y">>, <<"C", "r", "e", "a", "t", "e", "d", "B", "y">>, <<"D", "S", "A", " ", "M", "o", "b", "i", "l", "e">>, <<"d", "s", "a", "_", "m", "o", "b", "i", "l", "e">>,
      <<"A", "g", "e", "n", "t", " ", "M", "o", "b", "i", "l", "e">>, <<"a", "g", "e", "n", "t", "_", "m", "o", "b", "i", "l", "e">>, <<"R", "e", "f", "e", "r", "r", "e", "r", " ", "M", "o", "b", "i", "l", "e">>, <<"R", "e", "f", "e", "r", "r", "e", "r", "_", "I", "D">>,
      <<"A", "g", "e", "n", "t", "_", "I", "D">>, <<"a", "g", "e", "n", "t", "_", "i", "d">>, <<"d", "s", "a", "_", "i", "d">>, <<"D", "S", "A", "_", "I", "D">>>>

r2_deposit_tx_type_options ==
    <<<<"T", "r", "a", "n", "s", "a", "c", "t", "i", "o", "n", " ", "T", "y", "p", "e">>, <<"t", "r", "a", "n", "s", "a", "c", "t", "i", "o", "n", "_", "t", "y", "p", "e">>, <<"T", "r", "a", "n", "s", "a", "c", "t", "i", "o", "n", "T", "y", "p", "e">>, <<"T", "y", "p", "e">>,
      <<"t", "r", "a", "n", "s", "a", "c", "t", "i", "o", "n", " ", "t", "y", "p", "e">>, <<"t", "x", "n", "_", "t", "y", "p", "e">>, <<"T", "X", "N", "_", "T", "Y", "P", "E">>, <<"t", "r", "a", "n", "s", "a", "c", "t", "i", "o", "n", "T", "y", "p", "e">>, <<"t", "r", "x", "_", "t", "y", "p", "e">>>>

r2_onboarding_customer_names ==
    <<<<"M", "o", "b", "i", "l", "e">>, <<"C", "u", "s", "t", "o", "m", "e", "r", " ", "M", "o", "b", "i", "l", "e">>, <<"c", "u", "s", "t", "o", "m", "e", "r", "_", "m", "o", "b", "i", "l", "e">>, <<"U", "s", "e", "r", " ", "M", "o", "b", "i", "l", "e">>>>

r2_onboarding_dsa_names ==
    <<<<"C", "u", "s", "t", "o", "m", "e", "r", " ", "R", "e", "f", "e", "r", "r", "e", "r", " ", "M", "o", "b", "i", "l", "e">>, <<"d", "s", "a", "_", "m", "o", "b", "i", "l", "e">>, <<"R", "e", "f", "e", "r", "r", "e", "r", " ", "M", "o", "b", "i", "l", "e">>, <<"A", "g", "e", "n", "t", " ", "M", "o", "b", "i", "l", "e">>>>

r2_activity_customer_patterns == <<<<"u", "s", "e", "r">>, <<"c", "u", "s", "t", "o", "m", "e", "r">>, <<"m", "o", "b", "i", "l", "e">>, <<"c", "r", "e", "a", "t", "e", "d", " ", "b", "y">>>>

r2_activity_customer_names ==
    <<<<"u", "s", "e", "r", "_", "i", "d">>, <<"U", "s", "e", "r", " ", "I", "d", "e", "n", "t", "i", "f", "i", "e", "r">>, <<"c", "u", "s", "t", "o", "m", "e", "r", "_", "m", "o", "b", "i", "l", "e">>, <<"M", "o", "b", "i", "l", "e">>, <<"C", "r", "e", "a", "t", "e", "d", " ", "B", "y">>>>

r2_activity_tx_type_names == <<<<"t", "r", "a", "n", "s", "a", "c", "t", "i", "o", "n", "_", "t", "y", "p", "e">>, <<"T", "r", "a", "n", "s", "a", "c", "t", "i", "o", "n", " ", "T", "y", "p", "e">>>>

r2_credit_types == {<<"C", "R">>, <<"D", "E", "P", "O", "S", "I", "T">>, <<"C">>, <<"C", "R", "E", "D", "I", "T">>, <<"D">>}

r2_debit_types == {<<"D", "R">>, <<"D", "E", "B", "I", "T">>, <<"D">>, <<"C", "R">>}

NOT_ONBOARDED == <<"N", "O", "T", " ", "O", "N", "B", "O", "A", "R", "D", "E", "D">>
NO_ONBOARDING == <<"N", "O", " ", "O", "N", "B", "O", "A", "R", "D", "I", "N", "G">>
ONBOARDED == <<"O", "N", "B", "O", "A", "R", "D", "E", "D">>
MATCH == <<"M", "A", "T", "C", "H">>
MISMATCH == <<"M", "I", "S", "M", "A", "T", "C", "H">>

RateB == 25

\* any(opt.lower() in col_lower for opt in options)
r2_any_in(col, options) ==
    \E i \in DOMAIN options : contains(lower(col), lower(options[i]))

\* a deposit column: the first column of the frame that contains an option,
\* else the first option that is a column
r2_deposit_column(columns, options) ==
    LET Hit(col) == r2_any_in(col, options)
        hits == SelectSeq(columns, Hit)
    IN  IF hits # <<>> THEN hits[1] ELSE find_column(columns, options)

r2_is_onboarding_customer(col) ==
    /\ contains(lower(col), <<"m", "o", "b", "i", "l", "e">>)
    /\ (contains(lower(col), <<"c", "u", "s", "t", "o", "m", "e", "r">>) \/ contains(lower(col), <<"u", "s", "e", "r">>))

r2_is_onboarding_dsa(col) ==
    /\ ~r2_is_onboarding_customer(col)
    /\ \/ contains(lower(col), <<"r", "e", "f", "e", "r", "r", "e", "r">>)
       \/ contains(lower(col), <<"d", "s", "a">>)
       \/ contains(lower(col), <<"a", "g", "e", "n", "t">>)

\* the loop keeps the last column that matches, then falls back on the names
r2_onboarding_customer_column(columns) ==
    LET hits == SelectSeq(columns, r2_is_onboarding_customer)
    IN  IF hits # <<>> THEN hits[Len(hits)]
        ELSE find_column(columns, r2_onboarding_customer_names)

r2_onboarding_dsa_column(columns) ==
    LET hits == SelectSeq(columns, r2_is_onboarding_dsa)
    IN  IF hits # <<>> THEN hits[Len(hits)]
        ELSE find_column(columns, r2_onboarding_dsa_names)

\* the ticket or scan customer column: the first column that contains a
\* pattern (the patterns are lower case), else the first name that is a column
r2_activity_customer_column(columns) ==
    LET Hit(col) == \E i \in DOMAIN r2_activity_customer_patterns :
                        contains(lower(col), r2_activity_customer_patterns[i])
        hits == SelectSeq(columns, Hit)
    IN  IF hits # <<>> THEN hits[1]
        ELSE find_column(columns, r2_activity_customer_names)

\* The columns Report 2 resolves in a frame depend on its headers only; they
\* are tabulated once for the headers the specifications upload.
r2_deposit_columns ==
    [columns \in Schemas |->
        [customer |-> r2_deposit_column(columns, r2_deposit_customer_options),
         dsa |-> r2_deposit_column(columns, r2_deposit_dsa_options),
         tx_type |-> r2_deposit_column(columns, r2_deposit_tx_type_options)]]

r2_onboarding_columns ==
    [columns \in Schemas |->
        [customer |-> r2_onboarding_customer_column(columns),
         dsa |-> r2_onboarding_dsa_column(columns)]]

r2_activity_columns ==
    [columns \in Schemas |-> r2_activity_customer_column(columns)]

\* dropna(subset=[clean columns]) and the != '' filter
r2_has_both(row) ==
    /\ ~isna(row.customer_mobile_clean) /\ ~isna(row.dsa_mobile_clean)
    /\ row.customer_mobile_clean # <<>> /\ row.dsa_mobile_clean # <<>>

\* the deposit rows with the cleaned identifiers and the upper-case type
r2_deposit_cleaned(dep, deposit_customer_col, deposit_dsa_col, deposit_tx_type_col) ==
    [i \in DOMAIN dep.rows |->
        [customer_mobile_clean |->
            clean_mobile_for_report2_of[dep.rows[i][deposit_customer_col]],
         dsa_mobile_clean |->
            clean_mobile_for_report2_of[dep.rows[i][deposit_dsa_col]],
         tx_type |-> IF deposit_tx_type_col = None THEN None
                     ELSE upper(strip(str(dep.rows[i][deposit_tx_type_col])))]]

\* the credit filter (all rows without a type column)
r2_credit_rows(present, deposit_tx_type_col) ==
    LET IsCredit(row) == row.tx_type \in r2_credit_types
    IN  IF deposit_tx_type_col = None THEN present
        ELSE SelectSeq(present, IsCredit)

\* r2_deposit with repeated rows dropped: a pair's second deposit would not
\* be counted, which C9 excludes
r2_deposit_distinct(dep, deposit_customer_col, deposit_dsa_col, deposit_tx_type_col) ==
    r2_credit_rows(
        unique(SelectSeq(r2_deposit_cleaned(dep, deposit_customer_col, deposit_dsa_col,
                                            deposit_tx_type_col),
                         r2_has_both)),
        deposit_tx_type_col)

\* deposit rows as (customer_mobile_clean, dsa_mobile_clean) after cleaning
\* and the credit filter
r2_deposit(dep, deposit_customer_col, deposit_dsa_col, deposit_tx_type_col) ==
    r2_credit_rows(
        SelectSeq(r2_deposit_cleaned(dep, deposit_customer_col, deposit_dsa_col,
                                     deposit_tx_type_col),
                  r2_has_both),
        deposit_tx_type_col)

\* the mapping customer -> DSA of the onboarding rows; a later row of the
\* same customer replaces an earlier one
RECURSIVE r2_map_rows(_)
r2_map_rows(rows) ==
    IF rows = <<>> THEN <<>>
    ELSE (rows[Len(rows)].customer_mobile_clean :> rows[Len(rows)].dsa_mobile_clean)
             @@ r2_map_rows(SubSeq(rows, 1, Len(rows) - 1))

r2_onboarding_cleaned(onb, onboarding_customer_col, onboarding_dsa_col) ==
    [i \in DOMAIN onb.rows |->
        [customer_mobile_clean |->
            clean_mobile_for_report2_of[onb.rows[i][onboarding_customer_col]],
         dsa_mobile_clean |->
            clean_mobile_for_report2_of[onb.rows[i][onboarding_dsa_col]]]]

r2_onboarding_map_from(onb, onboarding_customer_col, onboarding_dsa_col) ==
    IF onboarding_customer_col # None /\ onboarding_dsa_col # None
    THEN r2_map_rows(SelectSeq(r2_onboarding_cleaned(onb, onboarding_customer_col,
                                                     onboarding_dsa_col),
                               r2_has_both))
    ELSE <<>>

r2_onboarding_map(onb) ==
    r2_onboarding_map_from(onb, r2_onboarding_columns[onb.columns].customer,
                           r2_onboarding_columns[onb.columns].dsa)

\* the ticket or scan rows the type filter keeps (all rows without a type
\* column)
r2_debit_rows(df, tx_col) ==
    LET IsDebit(row) == upper(strip(str(row[tx_col]))) \in r2_debit_types
    IN  IF tx_col = None THEN df.rows ELSE SelectSeq(df.rows, IsDebit)

r2_activity_customers(kept, customer_col) ==
    [i \in DOMAIN kept |-> clean_mobile_for_report2_of[kept[i][customer_col]]]

r2_present(customer_mobile) == ~isna(customer_mobile)

\* the cleaned customer of every ticket or scan row that passes the type
\* filter and has a customer; no rows when the customer column is not found
r2_activity(df, customer_col) ==
    IF customer_col = None THEN <<>>
    ELSE SelectSeq(
            r2_activity_customers(
                r2_debit_rows(df, find_column(df.columns, r2_activity_tx_type_names)),
                customer_col),
            r2_present)

\* r2_skip without its last test: a self-deposit would be registered, which
\* C8 excludes
r2_skip_missing(customer_mobile, dsa_mobile) ==
    \/ isna(customer_mobile) \/ customer_mobile = <<>>
    \/ isna(dsa_mobile) \/ dsa_mobile = <<>>

\* section 6 skips a row whose customer or DSA is missing, or whose customer
\* is its DSA
r2_skip(customer_mobile, dsa_mobile) ==
    \/ isna(customer_mobile) \/ customer_mobile = <<>>
    \/ isna(dsa_mobile) \/ dsa_mobile = <<>>
    \/ customer_mobile = dsa_mobile

\* if dsa_mobile not in dsa_customers: a new DSA, with no customers yet
r2_add_dsa(dsa_customers, dsa_mobile) ==
    IF \E i \in DOMAIN dsa_customers : dsa_customers[i].dsa_mobile = dsa_mobile
    THEN dsa_customers
    ELSE Append(dsa_customers, [dsa_mobile |-> dsa_mobile, customers |-> <<>>])

\* the entry a customer gets at its first deposit under a DSA
r2_new_customer(customer_mobile, onboarding_map) ==
    [customer_mobile |-> customer_mobile,
     deposit_count |-> 0,
     bought_ticket |-> 0,
     did_scan |-> 0,
     onboarded_by |-> IF customer_mobile \in DOMAIN onboarding_map
                      THEN onboarding_map[customer_mobile] ELSE NOT_ONBOARDED,
     match_status |-> IF customer_mobile \notin DOMAIN onboarding_map
                      THEN NO_ONBOARDING ELSE ONBOARDED]

\* if customer_mobile not in the DSA's customers: a new entry
r2_add_customer(customers, customer_mobile, onboarding_map) ==
    IF \E j \in DOMAIN customers : customers[j].customer_mobile = customer_mobile
    THEN customers
    ELSE Append(customers, r2_new_customer(customer_mobile, onboarding_map))

\* deposit_count += 1 on the customer's entry (a dictionary has one entry
\* per key)
r2_count_deposit(customers, customer_mobile) ==
    [j \in DOMAIN customers |->
        IF customers[j].customer_mobile = customer_mobile
        THEN [customers[j] EXCEPT !.deposit_count = @ + 1]
        ELSE customers[j]]

r2_enter(dsa_customers, dsa_mobile, customer_mobile, onboarding_map) ==
    [i \in DOMAIN dsa_customers |->
        IF dsa_customers[i].dsa_mobile = dsa_mobile
        THEN [dsa_customers[i] EXCEPT !.customers =
                r2_count_deposit(r2_add_customer(@, customer_mobile, onboarding_map),
                                 customer_mobile)]
        ELSE dsa_customers[i]]

\* one deposit row entered into dsa_customers (section 6 of the function)
r2_register(dsa_customers, row, onboarding_map) ==
    IF r2_skip(row.customer_mobile_clean, row.dsa_mobile_clean) THEN dsa_customers
    ELSE r2_enter(r2_add_dsa(dsa_customers, row.dsa_mobile_clean),
                  row.dsa_mobile_clean, row.customer_mobile_clean, onboarding_map)

RECURSIVE r2_register_all(_, _)
r2_register_all(deposits, onboarding_map) ==
    IF deposits = <<>> THEN <<>>
    ELSE r2_register(r2_register_all(SubSeq(deposits, 1, Len(deposits) - 1),
                                     onboarding_map),
                     deposits[Len(deposits)], onboarding_map)

\* r2_match_status without section 9: the status of section 6 would stay,
\* which C7 excludes
r2_match_status_initial(customer_data, dsa_mobile) == customer_data.match_status

\* section 9: the final status of an entry of DSA dsa_mobile
r2_match_status(customer_data, dsa_mobile) ==
    IF customer_data.onboarded_by = NOT_ONBOARDED THEN NO_ONBOARDING
    ELSE IF customer_data.onboarded_by = dsa_mobile THEN MATCH
    ELSE MISMATCH

\* value_counts(): the number of rows of one customer
r2_count_of(activity, customer_mobile) ==
    LET Mine(c) == c = customer_mobile
    IN  Len(SelectSeq(activity, Mine))

\* sections 7 to 9 for one entry: its ticket and scan counts (set only when
\* the customer has such rows) and its match status
r2_complete_customer(customer_data, dsa_mobile, tickets, scans) ==
    [customer_data EXCEPT
        !.bought_ticket = IF customer_data.customer_mobile \in Range(tickets)
                          THEN r2_count_of(tickets, customer_data.customer_mobile) ELSE @,
        !.did_scan = IF customer_data.customer_mobile \in Range(scans)
                     THEN r2_count_of(scans, customer_data.customer_mobile) ELSE @,
        !.match_status = r2_match_status(customer_data, dsa_mobile)]

r2_complete(dsa_customers, tickets, scans) ==
    [i \in DOMAIN dsa_customers |->
        [dsa_mobile |-> dsa_customers[i].dsa_mobile,
         customers |->
            [j \in DOMAIN dsa_customers[i].customers |->
                r2_complete_customer(dsa_customers[i].customers[j],
                                     dsa_customers[i].dsa_mobile, tickets, scans)]]]

\* r2_is_listed without the status test: onboarded customers would be
\* listed, which C5 excludes
r2_is_listed_any_status(customer_data) ==
    /\ customer_data.deposit_count > 0
    /\ (customer_data.bought_ticket > 0 \/ customer_data.did_scan > 0)

\* r2_is_listed without the scans, which C15 excludes
r2_is_listed_tickets_only(customer_data) ==
    /\ customer_data.match_status = NO_ONBOARDING
    /\ customer_data.deposit_count > 0
    /\ customer_data.bought_ticket > 0

\* the filter of section 10
r2_is_listed(customer_data) ==
    /\ customer_data.match_status = NO_ONBOARDING
    /\ customer_data.deposit_count > 0
    /\ (customer_data.bought_ticket > 0 \/ customer_data.did_scan > 0)

\* r2_payment as a flat fee per agent, which C10 excludes
r2_payment_flat(customer_count) == RateB

r2_payment(customer_count) == customer_count * RateB

r2_separator ==
    [dsa_mobile |-> Blank, customer_mobile |-> Blank, bought_ticket |-> Blank,
     did_scan |-> Blank, deposited |-> Blank, onboarded_by |-> Blank,
     match_status |-> Blank, customer_count |-> Blank, deposit_count |-> Blank,
     ticket_count |-> Blank, scan_count |-> Blank, payment |-> Blank]

\* sum of a count over the listed customers of a DSA
r2_sum(no_onboarding_customers, column) ==
    SumSeq([i \in DOMAIN no_onboarding_customers |-> no_onboarding_customers[i][column]])

\* summary row, detail rows, separator; none when the DSA has no listed
\* customer
r2_summary_rows(dsa_mobile, no_onboarding_customers) ==
    IF no_onboarding_customers = <<>> THEN <<>>
    ELSE [i \in DOMAIN no_onboarding_customers |->
            [dsa_mobile |-> dsa_mobile,
             customer_mobile |-> no_onboarding_customers[i].customer_mobile,
             bought_ticket |-> Num(no_onboarding_customers[i].bought_ticket),
             did_scan |-> Num(no_onboarding_customers[i].did_scan),
             deposited |-> Num(no_onboarding_customers[i].deposit_count),
             onboarded_by |-> no_onboarding_customers[i].onboarded_by,
             match_status |-> no_onboarding_customers[i].match_status,
             customer_count |-> IF i = 1 THEN Num(Len(no_onboarding_customers)) ELSE Blank,
             deposit_count |-> IF i = 1 THEN Num(r2_sum(no_onboarding_customers, "deposit_count")) ELSE Blank,
             ticket_count |-> IF i = 1 THEN Num(r2_sum(no_onboarding_customers, "bought_ticket")) ELSE Blank,
             scan_count |-> IF i = 1 THEN Num(r2_sum(no_onboarding_customers, "did_scan")) ELSE Blank,
             payment |-> IF i = 1 THEN Num(r2_payment(Len(no_onboarding_customers))) ELSE Blank]]
         \o <<r2_separator>>

\* the rows of one DSA with its listed customers left in the order of the map
r2_dsa_rows_unsorted(entry) ==
    r2_summary_rows(entry.dsa_mobile, SelectSeq(entry.customers, r2_is_listed))

\* the rows of one DSA: its listed customers in customer order
r2_dsa_rows(entry) ==
    r2_summary_rows(entry.dsa_mobile,
        Values(SortItems(ByCustomer(SelectSeq(entry.customers, r2_is_listed)))))

RECURSIVE r2_result_rows(_)
r2_result_rows(dsa_customers) ==
    IF dsa_customers = <<>> THEN <<>>
    ELSE r2_dsa_rows(Head(dsa_customers)) \o r2_result_rows(Tail(dsa_customers))

r2_return(dsa_customers, onboarding_map) ==
    [report_2_results |-> r2_result_rows(dsa_customers),
     onboarding_map |-> onboarding_map,
     dsa_customers |-> dsa_customers]

r2_analyse(deposits, onboarding_map, tickets, scans) ==
    r2_return(r2_complete(r2_register_all(deposits, onboarding_map), tickets, scans),
              onboarding_map)

r2_reports(onb, dep, tkt, scn, cols) ==
    IF cols.customer = None \/ cols.dsa = None THEN ReportNone
    ELSE r2_analyse(r2_deposit(dep, cols.customer, cols.dsa, cols.tx_type),
                    r2_onboarding_map(onb),
                    r2_activity(tkt, r2_activity_columns[tkt.columns]),
                    r2_activity(scn, r2_activity_columns[scn.columns]))

process_report_2(onb, dep, tkt, scn) ==
    r2_reports(onb, dep, tkt, scn, r2_deposit_columns[dep.columns])

----------------------------------------------------------------------------
(* Payment report (generate_payment_report) *)

TOTAL == <<"T", "o", "t", "a", "l">>

\* the local payment_report before main() has generated a ledger
NotGenerated == <<[generated |-> FALSE]>>

DigitChars == <<"0", "1", "2", "3", "4", "5", "6", "7", "8", "9">>

\* str(n) of a non-negative integer
RECURSIVE int_str(_)
int_str(n) ==
    IF n < 10 THEN <<DigitChars[n + 1]>>
    ELSE int_str(n \div 10) \o <<DigitChars[(n % 10) + 1]>>

\* float(str(payment_value).replace(',', '').strip()), 0 when that raises
pay_parse(text) == IF IsFloat(text) THEN float(text) ELSE 0

\* the amount read from a payment cell: 0 for '', else the number its
\* text parses to (a payment cell of a report is a number or '', never NaN)
pay_payment_amount(payment_value) ==
    IF payment_value = Blank THEN 0
    ELSE pay_parse(strip(remove(int_str(payment_value[1]), <<",">>)))

\* the rows of Report 1 that carry a payment (Customer Count filled), none
\* when the session holds no report
pay_report1_rows(report1) ==
    LET Filled(row) == row.customer_count # Blank
    IN  IF report1 = EmptyDict THEN <<>>
        ELSE SelectSeq(report1.qualified_customers, Filled)

\* the rows of Report 2 that carry a payment and name a DSA
pay_report2_rows(report2) ==
    LET Filled(row) == /\ row.customer_count # Blank /\ row.payment # Blank
                       /\ row.dsa_mobile # Blank
    IN  IF report2 = EmptyDict THEN <<>>
        ELSE SelectSeq(report2.report_2_results, Filled)

\* payments[dsa_mobile] = payment_amount, row after row (a later row of the
\* same DSA replaces an earlier one)
RECURSIVE pay_payments(_)
pay_payments(payment_rows) ==
    IF payment_rows = <<>> THEN <<>>
    ELSE (payment_rows[Len(payment_rows)].dsa_mobile
              :> pay_payment_amount(payment_rows[Len(payment_rows)].payment))
         @@ pay_payments(SubSeq(payment_rows, 1, Len(payment_rows) - 1))

\* dict.get(dsa_mobile, 0)
pay_get(payments, dsa_mobile) ==
    IF dsa_mobile \in DOMAIN payments THEN payments[dsa_mobile] ELSE 0

pay_dsa_mobiles(payment_rows) ==
    [i \in DOMAIN payment_rows |-> payment_rows[i].dsa_mobile]

pay_by_dsa(dsas) == [i \in DOMAIN dsas |-> [key |-> <<dsas[i]>>, val |-> dsas[i]]]

\* the DSAs in the order the dictionaries hold them: what the ledger would
\* list without sorted(), which C13 excludes
pay_unsorted_dsas(rows1, rows2) ==
    unique(pay_dsa_mobiles(rows1) \o pay_dsa_mobiles(rows2))

\* sorted(set(keys of report 1 + keys of report 2))
pay_sorted_dsas(rows1, rows2) ==
    Values(SortItems(pay_by_dsa(unique(pay_dsa_mobiles(rows1) \o pay_dsa_mobiles(rows2)))))

\* pay_record with the total left at the Report 1 payment, which C12
\* excludes
pay_record_qualified_only(dsa_mobile, payment_qualified, payment_not_onboarded) ==
    [DSA_Mobile |-> dsa_mobile,
     payment_qualified |-> payment_qualified,
     payment_not_onboarded |-> payment_not_onboarded,
     total_payable |-> payment_qualified]

pay_record(dsa_mobile, payment_qualified, payment_not_onboarded) ==
    [DSA_Mobile |-> dsa_mobile,
     payment_qualified |-> payment_qualified,
     payment_not_onboarded |-> payment_not_onboarded,
     total_payable |-> payment_qualified + payment_not_onboarded]

\* one record per DSA
pay_records(dsas, report1_payments, report2_payments) ==
    [i \in DOMAIN dsas |->
        pay_record(dsas[i], pay_get(report1_payments, dsas[i]),
                   pay_get(report2_payments, dsas[i]))]

pay_sum(payment_records, column) ==
    SumSeq([i \in DOMAIN payment_records |-> payment_records[i][column]])

pay_totals_row(payment_records) ==
    [DSA_Mobile |-> TOTAL,
     payment_qualified |-> pay_sum(payment_records, "payment_qualified"),
     payment_not_onboarded |-> pay_sum(payment_records, "payment_not_onboarded"),
     total_payable |-> pay_sum(payment_records, "total_payable")]

\* the totals row is appended only to a ledger that has records
pay_with_totals(payment_records) ==
    IF payment_records # <<>>
    THEN Append(payment_records, pay_totals_row(payment_records))
    ELSE payment_records

pay_ledger(rows1, rows2) ==
    pay_with_totals(pay_records(pay_sorted_dsas(rows1, rows2),
                                pay_payments(rows1), pay_payments(rows2)))

generate_payment_report(report1, report2) ==
    pay_ledger(pay_report1_rows(report1), pay_report2_rows(report2))

----------------------------------------------------------------------------
(* Date filtering (parse_date, filter_by_date, find_date_column) *)

\* A datetime is <<year, month, day, hour, minute, second, microsecond, aware>>
\* where aware tells a time that carries a zone from a naive one.
Naive == "naive"
Aware == "aware"

date_formats ==
    << <<"%Y", "-", "%m", "-", "%d", " ", "%H", ":", "%M", ":", "%S">>,
       <<"%Y", "-", "%m", "-", "%d">>,
       <<"%d", "/", "%m", "/", "%Y", " ", "%H", ":", "%M", ":", "%S">>,
       <<"%d", "/", "%m", "/", "%Y">>,
       <<"%m", "/", "%d", "/", "%Y", " ", "%H", ":", "%M", ":", "%S">>,
       <<"%m", "/", "%d", "/", "%Y">>,
       <<"%Y", "-", "%m", "-", "%d", " ", "%H", ":", "%M", ":", "%S", ".", "%f">>,
       <<"%Y", "-", "%m", "-", "%d", "T", "%H", ":", "%M", ":", "%S">>,
       <<"%Y", "-", "%m", "-", "%d", "T", "%H", ":", "%M", ":", "%S", ".", "%f">> >>

\* datetime.strptime: the field a directive fills, the digits it takes at
\* least and at most, and the values it accepts
directive_field ==
    [d \in {"%Y", "%m", "%d", "%H", "%M", "%S", "%f"} |->
        CASE d = "%Y" -> 1 [] d = "%m" -> 2 [] d = "%d" -> 3 [] d = "%H" -> 4
          [] d = "%M" -> 5 [] d = "%S" -> 6 [] OTHER -> 7]

directive_min_width(d) == IF d = "%Y" THEN 4 ELSE 1

directive_max_width(d) == CASE d = "%Y" -> 4 [] d = "%f" -> 6 [] OTHER -> 2

directive_accepts(d, value) ==
    CASE d = "%Y" -> value >= 1
      [] d = "%m" -> value \in 1..12
      [] d = "%d" -> value \in 1..31
      [] d = "%H" -> value \in 0..23
      [] d = "%M" -> value \in 0..59
      [] d = "%S" -> value \in 0..59
      [] OTHER -> TRUE

RECURSIVE leading_digits(_, _)
leading_digits(text, width) ==
    IF width = 0 \/ text = <<>> \/ ~isdigit(Head(text)) THEN 0
    ELSE 1 + leading_digits(Tail(text), width - 1)

RECURSIVE power_of_ten(_)
power_of_ten(n) == IF n = 0 THEN 1 ELSE 10 * power_of_ten(n - 1)

\* the value of the digits a directive read (%f is a fraction of a second)
directive_value(d, digits) ==
    IF d = "%f" THEN DecimalValue(digits) * power_of_ten(6 - Len(digits))
    ELSE DecimalValue(digits)

\* the text after the spaces a blank of the format matches
RECURSIVE after_spaces(_)
after_spaces(text) ==
    IF text # <<>> /\ Head(text) = " " THEN after_spaces(Tail(text)) ELSE text

\* the fields read from the text under the rest of a format, None when the
\* text does not match or data remains unconverted
RECURSIVE strptime_fields(_, _, _)
strptime_read(text, fmt, fields, d, n) ==
    IF n < directive_min_width(d)
       \/ ~directive_accepts(d, directive_value(d, SubSeq(text, 1, n)))
    THEN None
    ELSE strptime_fields(SubSeq(text, n + 1, Len(text)), Tail(fmt),
             [fields EXCEPT ![directive_field[d]] = directive_value(d, SubSeq(text, 1, n))])

strptime_fields(text, fmt, fields) ==
    IF fmt = <<>> THEN (IF text = <<>> THEN fields ELSE None)
    ELSE IF Head(fmt) \in DOMAIN directive_field
    THEN strptime_read(text, fmt, fields, Head(fmt),
                       leading_digits(text, directive_max_width(Head(fmt))))
    ELSE IF Head(fmt) = " "
    THEN (IF text # <<>> /\ Head(text) = " "
          THEN strptime_fields(after_spaces(text), Tail(fmt), fields) ELSE None)
    ELSE IF text # <<>> /\ Head(text) = Head(fmt)
    THEN strptime_fields(Tail(text), Tail(fmt), fields)
    ELSE None

is_leap(year) == (year % 4 = 0 /\ year % 100 # 0) \/ year % 400 = 0

days_in_month(year, month) ==
    IF month = 2 THEN (IF is_leap(year) THEN 29 ELSE 28)
    ELSE IF month \in {4, 6, 9, 11} THEN 30 ELSE 31

\* datetime(...) raises ValueError for a day the month does not have
datetime_of(fields) ==
    IF fields = None THEN None
    ELSE IF fields[3] > days_in_month(fields[1], fields[2]) THEN None
    ELSE fields

\* datetime.strptime(text, fmt), None where it raises ValueError
strptime(text, fmt) ==
    datetime_of(strptime_fields(text, fmt, <<1900, 1, 1, 0, 0, 0, 0, Naive>>))

\* pd.to_datetime(text), None where it raises: of the cells that reach it, it
\* reads an ISO 8601 time with the zone designator Z, as a time in UTC, and
\* rejects a text without a date
zoned(dt) == IF dt = None THEN None ELSE [dt EXCEPT ![8] = Aware]

to_datetime(text) ==
    IF text # <<>> /\ text[Len(text)] = "Z"
    THEN zoned(strptime(SubSeq(text, 1, Len(text) - 1), date_formats[8]))
    ELSE None

\* for fmt in date_formats: the first format that reads the text, then the
\* fallback
RECURSIVE parse_with(_, _, _)
parse_first(date_str, text, formats, parsed) ==
    IF parsed # None THEN parsed ELSE parse_with(date_str, text, Tail(formats))

parse_with(date_str, text, formats) ==
    IF formats = <<>> THEN to_datetime(date_str)
    ELSE parse_first(date_str, text, formats, strptime(text, Head(formats)))

parse_date(date_str) ==
    IF isna(date_str) THEN None
    ELSE parse_with(date_str, strip(str(date_str)), date_formats)

\* datetime.combine(start_date, datetime.min.time()) and
\* datetime.combine(end_date, datetime.max.time())
start_of_day(date) == <<date[1], date[2], date[3], 0, 0, 0, 0, Naive>>

end_of_day(date) == <<date[1], date[2], date[3], 23, 59, 59, 999999, Naive>>

\* a <= b on naive datetimes: the order of the fields
RECURSIVE fields_leq(_, _, _)
fields_leq(a, b, i) ==
    IF i > 7 THEN TRUE
    ELSE IF a[i] # b[i] THEN a[i] < b[i]
    ELSE fields_leq(a, b, i + 1)

datetime_leq(a, b) == fields_leq(a, b, 1)

\* comparing the column of parsed dates with a naive datetime raises
\* TypeError when a parsed date carries a zone
comparison_raises(parsed) ==
    \E i \in DOMAIN parsed : parsed[i] # None /\ parsed[i][8] = Aware

\* the rows a comparison keeps: a missing date compares False
date_kept(parsed, start_date, end_date) ==
    {i \in DOMAIN parsed :
        /\ parsed[i] # None
        /\ start_date # None => datetime_leq(start_of_day(start_date), parsed[i])
        /\ end_date # None => datetime_leq(parsed[i], end_of_day(end_date))}

RECURSIVE rows_at(_, _, _)
rows_at(rows, kept, i) ==
    IF i > Len(rows) THEN <<>>
    ELSE (IF i \in kept THEN <<rows[i]>> ELSE <<>>) \o rows_at(rows, kept, i + 1)

\* the try block of filter_by_date; except Exception: return df
filter_parsed(df, parsed, start_date, end_date) ==
    IF (start_date # None \/ end_date # None) /\ comparison_raises(parsed)
    THEN df
    ELSE [df EXCEPT !.rows = rows_at(df.rows, date_kept(parsed, start_date, end_date), 1)]

filter_by_date(df, date_col, start_date, end_date) ==
    IF df.rows = <<>> \/ date_col \notin Range(df.columns) THEN df
    ELSE filter_parsed(df, [i \in DOMAIN df.rows |-> parse_date(df.rows[i][date_col])],
                       start_date, end_date)

date_cols ==
    <<<<"c", "r", "e", "a", "t", "e", "d", "_", "a", "t">>, <<"C", "r", "e", "a", "t", "e", "d", " ", "A", "t">>, <<"c", "r", "e", "a", "t", "e", "d", "A", "t">>, <<"C", "r", "e", "a", "t", "e", "d", "A", "t">>, <<"d", "a", "t", "e">>, <<"D", "a", "t", "e">>,
      <<"t", "i", "m", "e", "s", "t", "a", "m", "p">>, <<"T", "i", "m", "e", "s", "t", "a", "m", "p">>, <<"t", "i", "m", "e">>, <<"T", "i", "m", "e">>, <<"R", "e", "g", "i", "s", "t", "r", "a", "t", "i", "o", "n", " ", "D", "a", "t", "e">>,
      <<"U", "p", "d", "a", "t", "e", "d", " ", "A", "t">>, <<"C", "r", "e", "a", "t", "e", "d", " ", "A", "t">>>>

\* the first name of date_cols that is a column, else the first column whose
\* name contains 'date', 'time' or 'created'
find_date_column(columns) ==
    LET Hit(col) == \/ contains(lower(col), <<"d", "a", "t", "e">>)
                    \/ contains(lower(col), <<"t", "i", "m", "e">>)
                    \/ contains(lower(col), <<"c", "r", "e", "a", "t", "e", "d">>)
        hits == SelectSeq(columns, Hit)
    IN  IF find_column(columns, date_cols) # None THEN find_column(columns, date_cols)
        ELSE IF hits # <<>> THEN hits[1]
        ELSE None

\* if start_date or end_date: ... if date_col: df = filter_by_date(...), the
\* date filtering both reports apply to each of their exports
date_filtered(df, date_col, start_date, end_date) ==
    IF (start_date # None \/ end_date # None) /\ date_col # None
    THEN filter_by_date(df, date_col, start_date, end_date)
    ELSE df

NotFiltered == [filtered |-> FALSE]

NoDates ==
    /\ dated_df = [columns |-> <<>>, rows |-> <<>>]
    /\ date_range = [start_date |-> None, end_date |-> None]
    /\ df_filtered = NotFiltered

----------------------------------------------------------------------------
(* SpecNorm: a raw identifier is typed character by character, then one of  *)
(* the program's normalisers is applied to it, and again to its own result. *)

MaxLen == 8

Alphabet == {"2", "0", "7", "+"}

NoTables ==
    /\ onboarding_df = [columns |-> <<>>, rows |-> <<>>]
    /\ deposit_df = [columns |-> <<>>, rows |-> <<>>]
    /\ ticket_df = [columns |-> <<>>, rows |-> <<>>]
    /\ scan_df = [columns |-> <<>>, rows |-> <<>>]
    /\ report_1_data = EmptyDict
    /\ report_2_data = EmptyDict
    /\ payment_report = NotGenerated
    /\ payment_report_data = EmptyDict
    /\ NoDates

InitNorm ==
    /\ raw \in {<<>>, NaN}
    /\ fn = "none"
    /\ once = Unset
    /\ twice = Unset
    /\ NoTables

TypeChar ==
    /\ fn = "none"
    /\ ~isna(raw)
    /\ Len(raw) < MaxLen
    /\ \E ch \in Alphabet : raw' = Append(raw, ch)
    /\ UNCHANGED <<fn, once, twice>>
    /\ UNCHANGED dataVars

Normalize ==
    /\ fn = "none"
    /\ \E f \in Normalizers :
          /\ fn' = f
          /\ once' = normalize(f, raw)
    /\ UNCHANGED <<raw, twice>>
    /\ UNCHANGED dataVars

NormalizeAgain ==
    /\ fn \in Normalizers
    /\ twice = Unset
    /\ twice' = normalize(fn, once)
    /\ UNCHANGED <<raw, fn, once>>
    /\ UNCHANGED dataVars

NextNorm == TypeChar \/ Normalize \/ NormalizeAgain

SpecNorm == InitNorm /\ [][NextNorm]_vars

----------------------------------------------------------------------------
(* Spec: four CSV exports are uploaded and main() processes them.           *)

MaxOnboarding == 2
MaxDeposit == 2
MaxTicket == 1
MaxScan == 1

\* the sequences over S of length at most n
SeqsUpTo(S, n) == UNION {[1..k -> S] : k \in 0..n}

\* the frames read from the CSV files of at most n rows
Frames(columns, rows, n) ==
    {read_csv([columns |-> columns, rows |-> r]) : r \in SeqsUpTo(rows, n)}

Init ==
    /\ raw = <<>>
    /\ fn = "none"
    /\ once = Unset
    /\ twice = Unset
    /\ onboarding_df \in Frames(OnboardingColumns, OnboardingRows, MaxOnboarding)
    /\ deposit_df \in Frames(DepositColumns, DepositRows, MaxDeposit)
    /\ ticket_df \in Frames(TicketColumns, TicketRows, MaxTicket)
    /\ scan_df \in Frames(ScanColumns, ScanRows, MaxScan)
    /\ report_1_data = EmptyDict
    /\ report_2_data = EmptyDict
    /\ payment_report = NotGenerated
    /\ payment_report_data = EmptyDict
    /\ NoDates

\* if report1_result: ... the session entry after a report function returned
stored(previous, result) == IF result = ReportNone THEN previous ELSE result

\* main(): both reports are processed on the uploaded frames; a report that
\* returns None leaves the session's previous result in place.  The payment
\* report is generated from the session's reports and stored unless empty.  The block is
\* taken once per upload: a rerun of the script on the same frames computes
\* the same two results again.  Report 1 works on the uploaded frames
\* themselves, so the ticket frame keeps the column names it was given.
ProcessFiles ==
    /\ report_1_data = EmptyDict /\ report_2_data = EmptyDict
    /\ report_1_data' = stored(report_1_data,
            process_report_1(onboarding_df, ticket_df, deposit_df, scan_df))
    /\ ticket_df' = r1_fix_ticket_data(ticket_df)
    /\ report_2_data' = stored(report_2_data,
            process_report_2(onboarding_df, deposit_df, ticket_df', scan_df))
    /\ payment_report' = generate_payment_report(report_1_data', report_2_data')
    /\ payment_report_data' = IF payment_report' # <<>> THEN payment_report'
                               ELSE payment_report_data
    /\ UNCHANGED <<onboarding_df, deposit_df, scan_df>>
    /\ UNCHANGED normVars
    /\ UNCHANGED dateVars

Next == ProcessFiles

Spec == Init /\ [][Next]_vars

\* The uploads of the second specification: exports under either set of
\* headers, with rows of every transaction type and entity.
MaxExportRows == 1

ExportFrames(columns, rows) == Frames(columns, rows, MaxExportRows)

OnboardingExports ==
    ExportFrames(OnboardingColumns,
                 {Row(OnboardingColumns, cells) : cells \in OnboardingExportCells})
    \cup ExportFrames(OnboardingExportColumns,
                 {Row(OnboardingExportColumns, cells) : cells \in OnboardingExportCells})
    \cup ExportFrames(OnboardingOtherColumns,
                 {Row(OnboardingOtherColumns, cells) : cells \in OnboardingExportCells})

DepositExports ==
    ExportFrames(DepositColumns,
                 {Row(DepositColumns, cells) : cells \in DepositExportCells})

TicketExports ==
    ExportFrames(TicketColumns,
                 {Row(TicketColumns, cells) : cells \in TicketExportCells})
    \cup ExportFrames(TicketExportColumns,
                 {Row(TicketExportColumns, TicketExportRow(cells)) :
                      cells \in TicketExportCells})

ScanExports ==
    ExportFrames(ScanColumns, {Row(ScanColumns, cells) : cells \in ScanExportCells})

InitExports ==
    /\ raw = <<>>
    /\ fn = "none"
    /\ once = Unset
    /\ twice = Unset
    /\ onboarding_df \in OnboardingExports
    /\ deposit_df \in DepositExports
    /\ ticket_df \in TicketExports
    /\ scan_df \in ScanExports
    /\ report_1_data = EmptyDict
    /\ report_2_data = EmptyDict
    /\ payment_report = NotGenerated
    /\ payment_report_data = EmptyDict
    /\ NoDates

SpecExports == InitExports /\ [][Next]_vars

\* The session specification: the user uploads exports again and again in
\* one browser session; st.session_state lives across the reruns of main().
MaxSessionRows == 1

SessionFrames(columns, rows) == Frames(columns, rows, MaxSessionRows)

InitSession ==
    /\ raw = <<>>
    /\ fn = "none"
    /\ once = Unset
    /\ twice = Unset
    /\ onboarding_df = read_csv([columns |-> OnboardingColumns, rows |-> <<>>])
    /\ deposit_df = read_csv([columns |-> DepositColumns, rows |-> <<>>])
    /\ ticket_df = read_csv([columns |-> TicketColumns, rows |-> <<>>])
    /\ scan_df = read_csv([columns |-> ScanColumns, rows |-> <<>>])
    /\ report_1_data = EmptyDict
    /\ report_2_data = EmptyDict
    /\ payment_report = NotGenerated
    /\ payment_report_data = EmptyDict
    /\ NoDates

\* main() on a rerun with four files in the uploaders: the files are read,
\* both reports are processed and stored unless None, the payment report is
\* generated from the session's reports and stored unless it is empty.
Upload ==
    \E onb \in SessionFrames(OnboardingColumns, OnboardingRows),
       dep \in SessionFrames(DepositColumns, DepositRows),
       tkt \in SessionFrames(TicketColumns, TicketRows),
       scn \in SessionFrames(ScanColumns, ScanRows) :
        /\ onboarding_df' = onb
        /\ deposit_df' = dep
        /\ scan_df' = scn
        /\ ticket_df' = r1_fix_ticket_data(tkt)
        /\ report_1_data' = stored(report_1_data,
                process_report_1(onb, tkt, dep, scn))
        /\ report_2_data' = stored(report_2_data,
                process_report_2(onb, dep, ticket_df', scn))
        /\ payment_report' = generate_payment_report(report_1_data', report_2_data')
        /\ payment_report_data' = IF payment_report' # <<>> THEN payment_report'
                                   ELSE payment_report_data
        /\ UNCHANGED normVars
        /\ UNCHANGED dateVars

NextSession == Upload

SpecSession == InitSession /\ [][NextSession]_vars

\* The amounts specification: one onboarded customer who deposited, and
\* ticket and scan rows of this customer with every amount cell.
MaxAmountRows == 2

InitAmounts ==
    /\ raw = <<>>
    /\ fn = "none"
    /\ once = Unset
    /\ twice = Unset
    /\ onboarding_df = read_csv([columns |-> OnboardingColumns,
            rows |-> <<Row(OnboardingColumns, <<<<"1", "2", "3", "4", "5", "6", "7">>, <<"7", "6", "5", "4", "3", "2", "1">>, <<"A", "w", "a">>>>)>>])
    /\ deposit_df = read_csv([columns |-> DepositColumns,
            rows |-> <<Row(DepositColumns, <<<<"1", "2", "3", "4", "5", "6", "7">>, <<"7", "6", "5", "4", "3", "2", "1">>, <<"C", "R">>>>)>>])
    /\ ticket_df \in Frames(TicketColumns,
            {Row(TicketColumns, <<<<"1", "2", "3", "4", "5", "6", "7">>, <<"C", "u", "s", "t", "o", "m", "e", "r">>, <<"D", "R">>, amount>>) :
                amount \in TicketAmounts}, MaxAmountRows)
    /\ scan_df \in Frames(ScanColumns,
            {Row(ScanColumns, <<<<"1", "2", "3", "4", "5", "6", "7">>, <<"D", "R">>, amount>>) :
                amount \in ScanAmounts}, MaxAmountRows)
    /\ report_1_data = EmptyDict
    /\ report_2_data = EmptyDict
    /\ payment_report = NotGenerated
    /\ payment_report_data = EmptyDict
    /\ NoDates

SpecAmounts == InitAmounts /\ [][Next]_vars

\* The agents specification: onboarding and deposit exports that name the
\* agents in either form, with the ticket and scan rows of the customers.
MaxAgentRows == 2

InitAgents ==
    /\ raw = <<>>
    /\ fn = "none"
    /\ once = Unset
    /\ twice = Unset
    /\ onboarding_df \in Frames(OnboardingColumns,
            {Row(OnboardingColumns, cells) : cells \in OnboardingAgentCells}, MaxAgentRows)
    /\ deposit_df \in Frames(DepositColumns,
            {Row(DepositColumns, cells) : cells \in DepositAgentCells}, MaxAgentRows)
    /\ ticket_df \in Frames(TicketColumns, TicketRows, MaxTicket)
    /\ scan_df \in Frames(ScanColumns, ScanRows, MaxScan)
    /\ report_1_data = EmptyDict
    /\ report_2_data = EmptyDict
    /\ payment_report = NotGenerated
    /\ payment_report_data = EmptyDict
    /\ NoDates

SpecAgents == InitAgents /\ [][Next]_vars

\* The third specification: one export with a date column or without, a date
\* range of the sidebar, and the date filtering of the export.
MaxDated == 2

DatedColumns == <<<<"U", "s", "e", "r", " ", "I", "d", "e", "n", "t", "i", "f", "i", "e", "r">>, <<"C", "r", "e", "a", "t", "e", "d", " ", "A", "t">>>>

UndatedColumns == <<<<"U", "s", "e", "r", " ", "I", "d", "e", "n", "t", "i", "f", "i", "e", "r">>, <<"R", "e", "f", "e", "r", "e", "n", "c", "e">>>>

DateCells ==
    {<<"2", "0", "2", "4", "-", "0", "1", "-", "0", "5">>, <<"2", "0", "2", "4", "-", "0", "1", "-", "0", "5", " ", "2", "3", ":", "5", "9", ":", "5", "9">>, <<"0", "5", "/", "0", "2", "/", "2", "0", "2", "4">>,
     <<"2", "0", "2", "4", "-", "0", "2", "-", "1", "0", "T", "0", "8", ":", "0", "0", ":", "0", "0", "Z">>, <<"p", "e", "n", "d", "i", "n", "g">>, NaN}

DatedRows(columns) == {Row(columns, <<<<"1", "2", "3", "4", "5", "6", "7">>, cell>>) : cell \in DateCells}

\* the days the sidebar's date inputs offer
Days == {<<2024, 1, 5>>, <<2024, 2, 5>>}

\* display_filters(): All Time sets no date, every other choice sets both
DateRanges ==
    {[start_date |-> None, end_date |-> None]}
    \cup {[start_date |-> s, end_date |-> e] : s \in Days, e \in Days}

InitDate ==
    /\ raw = <<>>
    /\ fn = "none"
    /\ once = Unset
    /\ twice = Unset
    /\ onboarding_df = [columns |-> <<>>, rows |-> <<>>]
    /\ deposit_df = [columns |-> <<>>, rows |-> <<>>]
    /\ ticket_df = [columns |-> <<>>, rows |-> <<>>]
    /\ scan_df = [columns |-> <<>>, rows |-> <<>>]
    /\ report_1_data = EmptyDict
    /\ report_2_data = EmptyDict
    /\ payment_report = NotGenerated
    /\ payment_report_data = EmptyDict
    /\ dated_df \in Frames(DatedColumns, DatedRows(DatedColumns), MaxDated)
                    \cup Frames(UndatedColumns, DatedRows(UndatedColumns), MaxDated)
    /\ date_range \in DateRanges
    /\ df_filtered = NotFiltered

\* process_report_1 / process_report_2: the date filtering of one export
FilterByDate ==
    /\ df_filtered = NotFiltered
    /\ df_filtered' = date_filtered(dated_df, find_date_column(dated_df.columns),
                                     date_range.start_date, date_range.end_date)
    /\ UNCHANGED <<dated_df, date_range>>
    /\ UNCHANGED normVars
    /\ UNCHANGED <<onboarding_df, deposit_df, ticket_df, scan_df,
                    report_1_data, report_2_data, payment_report, payment_report_data>>

NextDate == FilterByDate

SpecDate == InitDate /\ [][NextDate]_vars

----------------------------------------------------------------------------
\* C1: normalisation is idempotent for every normaliser the program applies:
\* once a normaliser has been applied to its own result, the second result
\* equals the first.
C1_Idempotent == twice # Unset => twice = once

\* C2: every non-null raw identifier with at least 7 digits normalises to
\* exactly 7 characters, for every normaliser.
C2_CanonicalLength ==
    (once # Unset /\ ~isna(raw) /\ Len(DigitsOf(raw)) >= CanonicalLen)
        => (~isna(once) /\ Len(once) = CanonicalLen)

----------------------------------------------------------------------------
(* What the claims speak about, read from the state *)

Processed == report_1_data # EmptyDict /\ report_2_data # EmptyDict

\* the cells of the uploaded rows, by the headers of the exports
OnbCustomer(row) == row[<<"c", "u", "s", "t", "o", "m", "e", "r", "_", "m", "o", "b", "i", "l", "e">>]
OnbAgent(row) == row[<<"d", "s", "a", "_", "m", "o", "b", "i", "l", "e">>]
DepCustomer(row) == row[<<"U", "s", "e", "r", " ", "I", "d", "e", "n", "t", "i", "f", "i", "e", "r">>]
DepAgent(row) == row[<<"C", "r", "e", "a", "t", "e", "d", " ", "B", "y">>]
DepType(row) == row[<<"T", "r", "a", "n", "s", "a", "c", "t", "i", "o", "n", " ", "T", "y", "p", "e">>]
ActType(row) == row[<<"T", "r", "a", "n", "s", "a", "c", "t", "i", "o", "n", " ", "T", "y", "p", "e">>]
ActAmount(row) == row[<<"A", "m", "o", "u", "n", "t">>]
TktCustomer(row) == row[<<"U", "s", "e", "r", " ", "I", "d", "e", "n", "t", "i", "f", "i", "e", "r">>]
TktEntity(row) == row[<<"E", "n", "t", "i", "t", "y", " ", "N", "a", "m", "e">>]
ScanCustomer(row) == row[<<"C", "r", "e", "a", "t", "e", "d", " ", "B", "y">>]

\* the canonical identifier of the specification (7 characters)
Canon(x) == clean_mobile_number(x)

\* Report 1: the listed rows
R1Rows == report_1_data.qualified_customers

\* Report 2: the listed rows without the separators, and the entries of the
\* attribution map as (dsa_mobile, data)
R2Rows ==
    LET NotSeparator(row) == row.dsa_mobile # Blank
    IN  SelectSeq(report_2_data.report_2_results, NotSeparator)

R2Entries ==
    LET m == report_2_data.dsa_customers
    IN  UNION {{[dsa_mobile |-> m[i].dsa_mobile, data |-> m[i].customers[j]] :
                    j \in DOMAIN m[i].customers} : i \in DOMAIN m}

\* a deposit row that Report 2 attributes: credit typed, both canonical
\* identifiers present and different
R2Attributed(row) ==
    /\ upper(strip(str(DepType(row)))) \in r2_credit_types
    /\ ~isna(clean_mobile_for_report2_of[DepCustomer(row)])
    /\ ~isna(clean_mobile_for_report2_of[DepAgent(row)])
    /\ clean_mobile_for_report2_of[DepCustomer(row)] # clean_mobile_for_report2_of[DepAgent(row)]

R2Pair(row) == <<clean_mobile_for_report2_of[DepAgent(row)],
                 clean_mobile_for_report2_of[DepCustomer(row)]>>

----------------------------------------------------------------------------
\* C3: in both reports the datasets are joined on the canonical identifier: a
\* customer whose onboarding, deposit and ticket records carry different raw
\* forms of one canonical identifier is one customer.  Report 1 therefore
\* lists every onboarded customer (declared agent) that has a credit deposit
\* and a positive customer ticket under the same canonical identifier, and
\* Report 2 counts a ticket for every attributed customer that has a debit
\* ticket row under the same canonical identifier.
C3_JoinedOnCanonical ==
    Processed =>
        /\ \A i \in DOMAIN onboarding_df.rows, j \in DOMAIN deposit_df.rows,
              t \in DOMAIN ticket_df.rows :
              LET o == onboarding_df.rows[i]
                  d == deposit_df.rows[j]
                  k == ticket_df.rows[t]
              IN  ( /\ ~isna(OnbAgent(o)) /\ strip(OnbAgent(o)) # <<>>
                    /\ Canon(DepCustomer(d)) = Canon(OnbCustomer(o))
                    /\ upper(strip(str(DepType(d)))) \in r1_credit_types
                    /\ Canon(TktCustomer(k)) = Canon(OnbCustomer(o))
                    /\ lower(strip(str(TktEntity(k)))) = <<"c", "u", "s", "t", "o", "m", "e", "r">>
                    /\ upper(strip(str(ActType(k)))) \in r1_debit_types
                    /\ clean_currency_amount_of[ActAmount(k)] > 0 )
                  => \E r \in DOMAIN R1Rows :
                        Canon(R1Rows[r].customer_mobile) = Canon(OnbCustomer(o))
        /\ \A e \in R2Entries, t \in DOMAIN ticket_df.rows :
              ( /\ Canon(TktCustomer(ticket_df.rows[t])) = e.data.customer_mobile
                /\ upper(strip(str(ActType(ticket_df.rows[t])))) \in r2_debit_types )
              => e.data.bought_ticket > 0

\* C4: Report 1 lists a customer iff the customer has a credit deposit, a
\* positive ticket or scan amount and a declared onboarding agent; it lists
\* the customer under a declared agent, so a customer whose onboarding
\* records have a missing (null or blank) agent is never listed.
C4_ReportAEligibility ==
    Processed =>
        LET Declared(o) == ~isna(OnbAgent(o)) /\ strip(OnbAgent(o)) # <<>>
            OnbRows == onboarding_df.rows
            Deposited(c) ==
                \E j \in DOMAIN deposit_df.rows :
                    /\ safe_str_access_of[DepCustomer(deposit_df.rows[j])] = c
                    /\ upper(strip(str(DepType(deposit_df.rows[j])))) \in r1_credit_types
            Listed(c) == \E r \in DOMAIN R1Rows : R1Rows[r].customer_mobile = c
            row_of(c) == R1Rows[CHOOSE r \in DOMAIN R1Rows : R1Rows[r].customer_mobile = c]
        IN  /\ \A r \in DOMAIN R1Rows :
                 /\ R1Rows[r].deposited = 1 /\ Deposited(R1Rows[r].customer_mobile)
                 /\ R1Rows[r].ticket_amount > 0 \/ R1Rows[r].scan_amount > 0
                 /\ \E i \in DOMAIN OnbRows :
                       /\ Declared(OnbRows[i])
                       /\ safe_str_access_of[OnbCustomer(OnbRows[i])] = R1Rows[r].customer_mobile
                       /\ strip(OnbAgent(OnbRows[i])) = R1Rows[r].dsa_mobile
            /\ \A i \in DOMAIN OnbRows :
                 LET c == safe_str_access_of[OnbCustomer(OnbRows[i])]
                 IN  ( /\ Declared(OnbRows[i])
                       /\ Deposited(c)
                       /\ \E a \in DOMAIN report_1_data.onboarded_customers :
                             LET m == report_1_data.onboarded_customers[a]
                             IN  /\ m.customer_mobile = c
                                 /\ (m.ticket_amount > 0 \/ m.scan_amount > 0) )
                     => Listed(c)

\* C5: an (agent, customer) pair is in the Report 2 table iff its entry has
\* status NO ONBOARDING, at least one deposit authored by that agent and a
\* ticket count or scan count above 0; every listed row has match_status
\* NO ONBOARDING, stands for a deposit row of the upload authored by that
\* agent for that customer, and for a customer with no onboarding entry who
\* has a ticket or a scan row.
C5_ReportBEligibility ==
    Processed =>
        /\ \A e \in R2Entries :
              (\E r \in DOMAIN R2Rows :
                  /\ R2Rows[r].dsa_mobile = e.dsa_mobile
                  /\ R2Rows[r].customer_mobile = e.data.customer_mobile)
              <=> ( /\ e.data.match_status = NO_ONBOARDING
                    /\ e.data.deposit_count > 0
                    /\ (e.data.bought_ticket > 0 \/ e.data.did_scan > 0) )
        /\ \A r \in DOMAIN R2Rows :
              /\ R2Rows[r].match_status = NO_ONBOARDING
              /\ R2Rows[r].customer_mobile \notin DOMAIN report_2_data.onboarding_map
              /\ \E e \in R2Entries :
                    /\ e.dsa_mobile = R2Rows[r].dsa_mobile
                    /\ e.data.customer_mobile = R2Rows[r].customer_mobile
              /\ \E j \in DOMAIN deposit_df.rows :
                    /\ R2Attributed(deposit_df.rows[j])
                    /\ R2Pair(deposit_df.rows[j]) =
                          <<R2Rows[r].dsa_mobile, R2Rows[r].customer_mobile>>
              /\ \/ \E t \in DOMAIN ticket_df.rows :
                       clean_mobile_for_report2_of[TktCustomer(ticket_df.rows[t])]
                           = R2Rows[r].customer_mobile
                 \/ \E t \in DOMAIN scan_df.rows :
                       clean_mobile_for_report2_of[ScanCustomer(scan_df.rows[t])]
                           = R2Rows[r].customer_mobile

\* C5 witness: Report 2 lists a customer
C5_Witness == Processed /\ R2Rows # <<>>

\* C6: a customer with deposits authored by several agents is owned by the
\* first of them only: it has an entry under exactly one agent of the
\* attribution map, the agent of its first attributed deposit row.
C6_FirstAgentOwns ==
    Processed =>
        \A e \in R2Entries :
            LET Mine(row) == /\ R2Attributed(row)
                             /\ R2Pair(row)[2] = e.data.customer_mobile
                mine == SelectSeq(deposit_df.rows, Mine)
            IN  e.dsa_mobile = R2Pair(mine[1])[1]

\* C7: every entry of the attribution map is MATCH iff the onboarding map
\* names the deposit-authoring agent for the customer, MISMATCH iff it names
\* another agent, NO ONBOARDING iff it has no entry for the customer; the
\* onboarding map holds the customers of the onboarding rows that have both
\* identifiers, each with an agent of such a row; no other status is listed.
C7_Classification ==
    Processed =>
        LET map == report_2_data.onboarding_map
            Valid(o) == /\ ~isna(clean_mobile_for_report2_of[OnbCustomer(o)])
                        /\ ~isna(clean_mobile_for_report2_of[OnbAgent(o)])
            OnbRows == onboarding_df.rows
        IN  /\ \A e \in R2Entries :
                 LET c == e.data.customer_mobile
                     status == e.data.match_status
                 IN  /\ status \in {MATCH, MISMATCH, NO_ONBOARDING}
                     /\ status = MATCH <=> (c \in DOMAIN map /\ map[c] = e.dsa_mobile)
                     /\ status = MISMATCH <=> (c \in DOMAIN map /\ map[c] # e.dsa_mobile)
                     /\ status = NO_ONBOARDING <=> c \notin DOMAIN map
            /\ \A c \in DOMAIN map :
                 \E i \in DOMAIN OnbRows :
                    /\ Valid(OnbRows[i])
                    /\ clean_mobile_for_report2_of[OnbCustomer(OnbRows[i])] = c
                    /\ clean_mobile_for_report2_of[OnbAgent(OnbRows[i])] = map[c]
            /\ \A i \in DOMAIN OnbRows :
                 Valid(OnbRows[i]) =>
                    clean_mobile_for_report2_of[OnbCustomer(OnbRows[i])] \in DOMAIN map
            /\ \A r \in DOMAIN R2Rows :
                 R2Rows[r].match_status \in {MATCH, MISMATCH, NO_ONBOARDING}

\* C7 witness: the attribution map holds a MATCH entry and a MISMATCH entry
C7_Witness ==
    /\ Processed
    /\ \E e \in R2Entries : e.data.match_status = MATCH
    /\ \E e \in R2Entries : e.data.match_status = MISMATCH

\* C8: a self-deposit (canonical customer = canonical agent) is never
\* attributed: no agent has an entry for itself, no listed row pairs an
\* agent with itself, and the deposit counts of an agent add up to its
\* attributed deposit rows, the self-deposits not among them.
C8_NoSelfDeposit ==
    Processed =>
        /\ \A e \in R2Entries : e.data.customer_mobile # e.dsa_mobile
        /\ \A r \in DOMAIN R2Rows : R2Rows[r].customer_mobile # R2Rows[r].dsa_mobile
        /\ \A i \in DOMAIN report_2_data.dsa_customers :
              LET entry == report_2_data.dsa_customers[i]
                  Authored(row) == /\ R2Attributed(row)
                                   /\ R2Pair(row)[1] = entry.dsa_mobile
              IN  SumSeq([j \in DOMAIN entry.customers |->
                              entry.customers[j].deposit_count])
                      = Len(SelectSeq(deposit_df.rows, Authored))

\* C8 witness: an agent with a self-deposit row also has attributed customers
C8_Witness ==
    /\ Processed
    /\ \E j \in DOMAIN deposit_df.rows, e \in R2Entries :
          LET d == deposit_df.rows[j]
          IN  /\ ~isna(clean_mobile_for_report2_of[DepCustomer(d)])
              /\ clean_mobile_for_report2_of[DepCustomer(d)] = clean_mobile_for_report2_of[DepAgent(d)]
              /\ e.dsa_mobile = clean_mobile_for_report2_of[DepAgent(d)]

\* C9: every credit deposit row with non-null, differing canonical customer
\* and agent identifiers has exactly one entry for its (agent, customer)
\* pair, whose deposit_count is the number of such rows of the pair; every
\* entry stands for such a row and has status MATCH, MISMATCH or
\* NO ONBOARDING.
C9_AttributionComplete ==
    Processed =>
        LET m == report_2_data.dsa_customers
        IN  /\ \A j \in DOMAIN deposit_df.rows :
                 R2Attributed(deposit_df.rows[j]) =>
                    LET SamePair(row) == /\ R2Attributed(row)
                                         /\ R2Pair(row) = R2Pair(deposit_df.rows[j])
                        Mine(e) == <<e.dsa_mobile, e.data.customer_mobile>>
                                       = R2Pair(deposit_df.rows[j])
                    IN  /\ Cardinality({e \in R2Entries : Mine(e)}) = 1
                        /\ \A e \in R2Entries :
                              Mine(e) => e.data.deposit_count
                                             = Len(SelectSeq(deposit_df.rows, SamePair))
            /\ \A i, k \in DOMAIN m : m[i].dsa_mobile = m[k].dsa_mobile => i = k
            /\ \A i \in DOMAIN m : \A j, k \in DOMAIN m[i].customers :
                  m[i].customers[j].customer_mobile = m[i].customers[k].customer_mobile
                      => j = k
            /\ \A e \in R2Entries :
                  /\ e.data.match_status \in {MATCH, MISMATCH, NO_ONBOARDING}
                  /\ \E j \in DOMAIN deposit_df.rows :
                        /\ R2Attributed(deposit_df.rows[j])
                        /\ R2Pair(deposit_df.rows[j])
                              = <<e.dsa_mobile, e.data.customer_mobile>>

\* C9 witness: two deposit rows of one pair gave one entry with count 2
C9_Witness ==
    /\ Processed
    /\ \E e \in R2Entries : e.data.deposit_count = 2

\* C10: in each report the summary row of an agent carries the number of
\* rows listed for the agent as Customer Count and that number times the
\* report's rate as payment (40 in Report 1, 25 in Report 2, 25 < 40); an
\* agent has one summary row and its listed customers are distinct.
C10_PaymentFormula ==
    Processed =>
        LET Formula(rows, rate) ==
                \A r \in DOMAIN rows :
                    LET a == rows[r].dsa_mobile
                        mine == {q \in DOMAIN rows : rows[q].dsa_mobile = a}
                        summaries == {q \in mine : rows[q].customer_count # Blank}
                    IN  /\ Cardinality(summaries) = 1
                        /\ \A q \in summaries :
                              /\ rows[q].customer_count = Num(Cardinality(mine))
                              /\ rows[q].payment = Num(Cardinality(mine) * rate)
                        /\ \A q \in mine \ summaries : rows[q].payment = Blank
                        /\ Cardinality({rows[q].customer_mobile : q \in mine})
                              = Cardinality(mine)
        IN  /\ Formula(R1Rows, 40)
            /\ Formula(R2Rows, 25)
            /\ RateA = 40 /\ RateB = 25 /\ RateB < RateA

\* C10 witness: an agent of Report 2 is paid for two listed customers
C10_Witness ==
    /\ Processed
    /\ \E r \in DOMAIN R2Rows :
          R2Rows[r].customer_count = Num(2) /\ R2Rows[r].payment = Num(50)

----------------------------------------------------------------------------
(* The payment ledger *)

Generated == payment_report # NotGenerated

\* the agent rows of the ledger: every row but a last row named Total
LedgerAgentRows ==
    LET NotTotal(record) == record.DSA_Mobile # TOTAL
    IN  SelectSeq(payment_report, NotTotal)

LedgerTotalRows ==
    LET IsTotal(record) == record.DSA_Mobile = TOTAL
    IN  SelectSeq(payment_report, IsTotal)

\* C11: payment conservation: the ledger that generate_payment_report
\* returned ends with exactly one Total row, and each of its three fields is
\* the sum of that column over the agent rows, also when no agent earned
\* anything
C11_PaymentConservation ==
    Generated =>
        /\ Len(LedgerTotalRows) = 1
        /\ payment_report[Len(payment_report)].DSA_Mobile = TOTAL
        /\ \A column \in {"payment_qualified", "payment_not_onboarded", "total_payable"} :
                LedgerTotalRows[1][column] = pay_sum(LedgerAgentRows, column)

\* the rows of a report that carry a payment, and the payment of a DSA in
\* them (0 for a DSA the report does not pay)
PaidRows(rows) == {row \in Range(rows) : row.customer_count # Blank}

PaidAgents(rows) == {row.dsa_mobile : row \in PaidRows(rows)}

PaymentIn(rows, dsa_mobile) ==
    IF dsa_mobile \in PaidAgents(rows)
    THEN (CHOOSE row \in PaidRows(rows) : row.dsa_mobile = dsa_mobile).payment[1]
    ELSE 0

\* C12: reconciliation rows: the ledger has exactly one row for every agent
\* that Report 1 or Report 2 pays and for no other agent; the row holds the
\* agent's Report 1 payment or 0, its Report 2 payment or 0, and their sum
C12_ReconciliationRows ==
    (Generated /\ Processed) =>
        /\ {record.DSA_Mobile : record \in Range(LedgerAgentRows)}
               = PaidAgents(R1Rows) \cup PaidAgents(R2Rows)
        /\ Len(LedgerAgentRows) = Cardinality(PaidAgents(R1Rows) \cup PaidAgents(R2Rows))
        /\ \A record \in Range(LedgerAgentRows) :
              /\ record.payment_qualified = PaymentIn(R1Rows, record.DSA_Mobile)
              /\ record.payment_not_onboarded = PaymentIn(R2Rows, record.DSA_Mobile)
              /\ record.total_payable
                    = record.payment_qualified + record.payment_not_onboarded

\* an agent paid by both reports: 40 for one qualified customer, 25 for one
\* customer without onboarding, 65 in total
C12_Witness ==
    /\ Generated /\ Processed
    /\ \E record \in Range(LedgerAgentRows) :
          /\ record.payment_qualified = RateA
          /\ record.payment_not_onboarded = RateB
          /\ record.total_payable = RateA + RateB

\* the agent blocks of a report in the order of dsas, each followed by the
\* rows of closing (the separator of Report 2, nothing in Report 1)
RECURSIVE Blocks(_, _, _)
Blocks(rows, dsas, closing) ==
    IF dsas = <<>> THEN <<>>
    ELSE LET Mine(row) == row.dsa_mobile = Head(dsas)
         IN  SelectSeq(rows, Mine) \o closing \o Blocks(rows, Tail(dsas), closing)

\* the orders in which the agents of rows can be listed
Orders(rows) ==
    LET dsas == unique(pay_dsa_mobiles(rows))
    IN  {[i \in DOMAIN dsas |-> dsas[p[i]]] : p \in Permutations(DOMAIN dsas)}

\* the session's reports with their agent blocks permuted
PermutedReports1 ==
    {[report_1_data EXCEPT !.qualified_customers = Blocks(R1Rows, order, <<>>)] :
        order \in Orders(R1Rows)}

PermutedReports2 ==
    {[report_2_data EXCEPT !.report_2_results = Blocks(R2Rows, order, <<r2_separator>>)] :
        order \in Orders(R2Rows)}

\* C13: generate_payment_report is idempotent and order-independent: on the
\* session's reports it returns the same ledger again, on the reports with
\* their agent blocks permuted it returns that ledger too, and the agent rows
\* of the ledger ascend by identifier with the Total row last
C13_OrderIndependent ==
    (Generated /\ Processed) =>
        /\ generate_payment_report(report_1_data, report_2_data) = payment_report
        /\ \A report1 \in PermutedReports1 : \A report2 \in PermutedReports2 :
              generate_payment_report(report1, report2) = payment_report
        /\ payment_report # <<>> =>
              payment_report[Len(payment_report)].DSA_Mobile = TOTAL
        /\ \A i \in 1..(Len(payment_report) - 1) :
              /\ payment_report[i].DSA_Mobile # TOTAL
              /\ i > 1 => StrLess(payment_report[i - 1].DSA_Mobile,
                                  payment_report[i].DSA_Mobile)

\* a ledger of two agents whose blocks Report 2 lists in descending order
C13_Witness ==
    /\ Generated /\ Processed
    /\ Len(LedgerAgentRows) = 2
    /\ \E i \in DOMAIN R2Rows : \E j \in DOMAIN R2Rows :
          i < j /\ StrLess(R2Rows[j].dsa_mobile, R2Rows[i].dsa_mobile)

----------------------------------------------------------------------------
(* Scenarios and the headers of the exports *)

\* the cells of row i of an upload in column order
UploadCells(df, i) == [j \in DOMAIN df.columns |-> df.rows[i][df.columns[j]]]

\* the customer, the entity, the type and the amount of ticket row i
TicketCells(df, i) ==
    IF Len(df.columns) = TicketExportWidth
    THEN <<UploadCells(df, i)[1], UploadCells(df, i)[4],
           UploadCells(df, i)[11], UploadCells(df, i)[12]>>
    ELSE UploadCells(df, i)

\* the upload is the one row of the given cells
OneRow(df, cells) == Len(df.rows) = 1 /\ UploadCells(df, 1) = cells

OneTicket(df, cells) == Len(df.rows) = 1 /\ TicketCells(df, 1) = cells

\* customer 1234567 onboarded by agent 7654321, one deposit authored by
\* 7654321, one ticket purchase of 50 typed DR of entity Customer, under
\* either set of headers
OnboardedScenario ==
    /\ OneRow(onboarding_df, <<<<"1", "2", "3", "4", "5", "6", "7">>, <<"7", "6", "5", "4", "3", "2", "1">>, <<"A", "w", "a">>>>)
    /\ OneRow(deposit_df, <<<<"1", "2", "3", "4", "5", "6", "7">>, <<"7", "6", "5", "4", "3", "2", "1">>, <<"C", "R">>>>)
    /\ OneTicket(ticket_df, <<<<"1", "2", "3", "4", "5", "6", "7">>, <<"C", "u", "s", "t", "o", "m", "e", "r">>, <<"D", "R">>, <<"5", "0">>>>)
    /\ scan_df.rows = <<>>

\* C14: in the onboarded scenario, whichever accepted headers the exports
\* carry, Report 1 lists customer 1234567 under agent 7654321 and pays the
\* agent 1 x 40, the attribution of the customer has status MATCH and
\* Report 2 has no row for the customer
C14_OnboardedScenario ==
    (Processed /\ OnboardedScenario) =>
        /\ \E r \in DOMAIN R1Rows :
              /\ R1Rows[r].customer_mobile = <<"1", "2", "3", "4", "5", "6", "7">>
              /\ R1Rows[r].dsa_mobile = <<"7", "6", "5", "4", "3", "2", "1">>
              /\ R1Rows[r].customer_count = Num(1)
              /\ R1Rows[r].payment = Num(RateA)
        /\ \A e \in R2Entries :
              e.data.customer_mobile = <<"1", "2", "3", "4", "5", "6", "7">> => e.data.match_status = MATCH
        /\ \A r \in DOMAIN R2Rows : R2Rows[r].customer_mobile # <<"1", "2", "3", "4", "5", "6", "7">>

\* customer 1234567 without an onboarding record, one deposit authored by
\* agent 9999999 and one scan of 20 typed DR; the onboarding export holds no
\* row or the row of another customer, the ticket export no row
NoOnboardingScenario ==
    /\ \A i \in DOMAIN onboarding_df.rows :
          UploadCells(onboarding_df, i)[1] # <<"1", "2", "3", "4", "5", "6", "7">>
    /\ OneRow(deposit_df, <<<<"1", "2", "3", "4", "5", "6", "7">>, <<"9", "9", "9", "9", "9", "9", "9">>, <<"C", "R">>>>)
    /\ ticket_df.rows = <<>>
    /\ OneRow(scan_df, <<<<"1", "2", "3", "4", "5", "6", "7">>, <<"D", "R">>, <<"2", "0">>>>)

\* C15: in the scenario without onboarding the attribution of customer
\* 1234567 has status NO ONBOARDING, Report 2 lists the customer under agent
\* 9999999 and under no other agent, and Report 1 does not list the customer
C15_NoOnboardingScenario ==
    (Processed /\ NoOnboardingScenario) =>
        /\ \E e \in R2Entries :
              /\ e.dsa_mobile = <<"9", "9", "9", "9", "9", "9", "9">>
              /\ e.data.customer_mobile = <<"1", "2", "3", "4", "5", "6", "7">>
        /\ \A e \in R2Entries :
              e.data.customer_mobile = <<"1", "2", "3", "4", "5", "6", "7">> =>
                  /\ e.dsa_mobile = <<"9", "9", "9", "9", "9", "9", "9">>
                  /\ e.data.match_status = NO_ONBOARDING
        /\ \E r \in DOMAIN R2Rows :
              /\ R2Rows[r].customer_mobile = <<"1", "2", "3", "4", "5", "6", "7">>
              /\ R2Rows[r].dsa_mobile = <<"9", "9", "9", "9", "9", "9", "9">>
              /\ R2Rows[r].match_status = NO_ONBOARDING
        /\ \A r \in DOMAIN R2Rows :
              R2Rows[r].customer_mobile = <<"1", "2", "3", "4", "5", "6", "7">> =>
                  R2Rows[r].dsa_mobile = <<"9", "9", "9", "9", "9", "9", "9">>
        /\ \A r \in DOMAIN R1Rows : R1Rows[r].customer_mobile # <<"1", "2", "3", "4", "5", "6", "7">>

\* the scenario without onboarding was processed, next to the onboarding row
\* of another customer
C15_Witness ==
    /\ Processed /\ NoOnboardingScenario
    /\ onboarding_df.rows # <<>>

----------------------------------------------------------------------------
(* Qualification monotonicity *)

\* the spellings of an identifier a row of an export may carry
RawForms == {<<"1", "2", "3", "4", "5", "6", "7">>, <<"0", "0", "0", "1", "2", "3", "4", "5", "6", "7">>, <<"+", "2", "2", "0", " ", "1", "2", "3", "-", "4", "5", "6", "7">>, <<"9", "9", "9", "9", "9", "9", "9">>}

PositiveAmount == <<"5", "0">>

\* one more ticket purchase, one more scan: a positive amount, typed DR
AddedTicketRows ==
    {Row(TicketColumns, <<id, <<"C", "u", "s", "t", "o", "m", "e", "r">>, <<"D", "R">>, PositiveAmount>>) : id \in RawForms}

AddedScanRows ==
    {Row(ScanColumns, <<id, <<"D", "R">>, PositiveAmount>>) : id \in RawForms}

\* the files an uploaded frame may have been read from
FilesOf(df, rows, n) ==
    {csv \in SeqsUpTo(rows, n) : read_csv([columns |-> df.columns, rows |-> csv]) = df}

\* the frame read from the file with one more row
WithRow(df, csv, row) == read_csv([columns |-> df.columns, rows |-> Append(csv, row)])

\* the customers Report 1 lists, by canonical identifier
Listed(report1) ==
    {Canon(report1.qualified_customers[r].customer_mobile) :
        r \in DOMAIN report1.qualified_customers}

\* the onboarded customers with a deposit, by canonical identifier
DepositedOnboarded ==
    {Canon(report_1_data.onboarded_customers[r].customer_mobile) :
        r \in {q \in DOMAIN report_1_data.onboarded_customers :
                  report_1_data.onboarded_customers[q].deposited = 1}}

\* the added row of customer c leaves c listed if c was listed
Kept(c, customer_col, row, report1) ==
    (c \in DepositedOnboarded /\ Canon(row[customer_col]) = c /\ c \in Listed(report_1_data))
        => (report1 # ReportNone /\ c \in Listed(report1))

\* C16: one more ticket row or one more scan row with a positive amount for
\* a customer who is onboarded and has a deposit never removes the customer
\* from Report 1
C16_QualificationMonotone ==
    Processed =>
        \A c \in DepositedOnboarded :
            /\ \A csv \in FilesOf(ticket_df, TicketRows, MaxTicket) :
               \A row \in AddedTicketRows :
                  Kept(c, <<"U", "s", "e", "r", " ", "I", "d", "e", "n", "t", "i", "f", "i", "e", "r">>, row,
                       process_report_1(onboarding_df, WithRow(ticket_df, csv, row),
                                        deposit_df, scan_df))
            /\ \A csv \in FilesOf(scan_df, ScanRows, MaxScan) :
               \A row \in AddedScanRows :
                  Kept(c, <<"C", "r", "e", "a", "t", "e", "d", " ", "B", "y">>, row,
                       process_report_1(onboarding_df, ticket_df, deposit_df,
                                        WithRow(scan_df, csv, row)))

----------------------------------------------------------------------------
(* Schema resolution *)

\* C17: every column that Report 2 resolves in the uploaded exports is the
\* first name of the field's candidate list that is a header of the export
\* (None where no candidate is one), as find_column resolves it; no column is
\* chosen by a substring of its header or by the order of the headers
C17_SchemaResolution ==
    Processed =>
        /\ r2_onboarding_columns[onboarding_df.columns].customer
              = find_column(onboarding_df.columns, r2_onboarding_customer_names)
        /\ r2_onboarding_columns[onboarding_df.columns].dsa
              = find_column(onboarding_df.columns, r2_onboarding_dsa_names)
        /\ r2_deposit_columns[deposit_df.columns].customer
              = find_column(deposit_df.columns, r2_deposit_customer_options)
        /\ r2_deposit_columns[deposit_df.columns].dsa
              = find_column(deposit_df.columns, r2_deposit_dsa_options)
        /\ r2_deposit_columns[deposit_df.columns].tx_type
              = find_column(deposit_df.columns, r2_deposit_tx_type_options)
        /\ r2_activity_columns[ticket_df.columns]
              = find_column(ticket_df.columns, r2_activity_customer_names)
        /\ r2_activity_columns[scan_df.columns]
              = find_column(scan_df.columns, r2_activity_customer_names)

----------------------------------------------------------------------------
(* Transaction types and entities *)

CreditCodes == {<<"C", "R">>, <<"D", "E", "P", "O", "S", "I", "T">>, <<"C">>, <<"C", "R", "E", "D", "I", "T">>}

DebitCodes == {<<"D", "R">>, <<"D", "E", "B", "I", "T">>, <<"D">>}

TypeCode(cell) == upper(strip(str(cell)))

\* customer c has a deposit row of a credit type
HasCredit(c) ==
    \E i \in DOMAIN deposit_df.rows :
        /\ Canon(DepCustomer(deposit_df.rows[i])) = c
        /\ TypeCode(DepType(deposit_df.rows[i])) \in CreditCodes

\* customer c has a ticket row of a debit type, a scan row of a debit type
HasDebitTicket(c) ==
    \E i \in DOMAIN ticket_df.rows :
        /\ Canon(TicketCells(ticket_df, i)[1]) = c
        /\ TypeCode(TicketCells(ticket_df, i)[3]) \in DebitCodes

HasDebitScan(c) ==
    \E i \in DOMAIN scan_df.rows :
        /\ Canon(UploadCells(scan_df, i)[1]) = c
        /\ TypeCode(UploadCells(scan_df, i)[2]) \in DebitCodes

\* C18: with a transaction type column in every export, only rows of a
\* credit type count as deposits and only rows of a debit type as ticket or
\* scan activity, in both reports: a customer is deposited or attributed
\* only by a credit row and has a ticket or a scan only by a debit row
C18_TransactionTypes ==
    Processed =>
        /\ \A r \in DOMAIN report_1_data.onboarded_customers :
              LET row == report_1_data.onboarded_customers[r]
              IN  /\ row.deposited = 1 => HasCredit(Canon(row.customer_mobile))
                  /\ row.bought_ticket = 1 => HasDebitTicket(Canon(row.customer_mobile))
                  /\ row.did_scan = 1 => HasDebitScan(Canon(row.customer_mobile))
        /\ \A e \in R2Entries :
              /\ HasCredit(e.data.customer_mobile)
              /\ e.data.bought_ticket > 0 => HasDebitTicket(e.data.customer_mobile)
              /\ e.data.did_scan > 0 => HasDebitScan(e.data.customer_mobile)

\* customer c has a ticket row of entity Customer
HasCustomerTicket(c) ==
    \E i \in DOMAIN ticket_df.rows :
        /\ Canon(TicketCells(ticket_df, i)[1]) = c
        /\ lower(strip(str(TicketCells(ticket_df, i)[2]))) = <<"c", "u", "s", "t", "o", "m", "e", "r">>

\* Report 1 counts a ticket purchase only for a customer with a ticket row of
\* entity Customer
R1EntityFilter ==
    \A r \in DOMAIN report_1_data.onboarded_customers :
        report_1_data.onboarded_customers[r].bought_ticket = 1
            => HasCustomerTicket(Canon(report_1_data.onboarded_customers[r].customer_mobile))

R2EntityFilter ==
    \A e \in R2Entries :
        e.data.bought_ticket > 0 => HasCustomerTicket(e.data.customer_mobile)

\* C19: a ticket row whose entity is not Customer (compared without case)
\* counts as a ticket purchase in neither report, under the four headers of
\* the ticket export and under the 29 columns renamed by position
C19_EntityFilter ==
    Processed => (R1EntityFilter /\ R2EntityFilter)

----------------------------------------------------------------------------
(* Date filtering *)

Filtered == df_filtered # NotFiltered

RangeActive == date_range.start_date # None \/ date_range.end_date # None

\* the parsed date of a row of the export, None for a date in no format
ParsedDate(row) == parse_date(row[find_date_column(dated_df.columns)])

InRange(dt) ==
    /\ date_range.start_date # None =>
          datetime_leq(start_of_day(date_range.start_date), dt)
    /\ date_range.end_date # None =>
          datetime_leq(dt, end_of_day(date_range.end_date))

\* C20: with a date range active and a date column in the export, no row
\* whose date is in no format is retained and the parsed date of every
\* retained row lies from the start day 00:00:00 to the end day
\* 23:59:59.999999; with no range active every row is retained
C20_UnparseableDates ==
    Filtered =>
        /\ (RangeActive /\ find_date_column(dated_df.columns) # None) =>
              \A i \in DOMAIN df_filtered.rows :
                  /\ ParsedDate(df_filtered.rows[i]) # None
                  /\ InRange(ParsedDate(df_filtered.rows[i]))
        /\ ~RangeActive => df_filtered = dated_df

----------------------------------------------------------------------------
(* Missing columns *)

\* C21: a report whose required column of an export cannot be resolved is
\* aborted and stores no result: Report 2 returns nothing when it resolves
\* no customer or no agent column in the onboarding export or in the
\* deposit export
C21_MissingColumn ==
    Generated =>
        /\ (\/ r2_onboarding_columns[onboarding_df.columns].customer = None
            \/ r2_onboarding_columns[onboarding_df.columns].dsa = None)
              => report_2_data = EmptyDict
        /\ (\/ r2_deposit_columns[deposit_df.columns].customer = None
            \/ r2_deposit_columns[deposit_df.columns].dsa = None)
              => report_2_data = EmptyDict

----------------------------------------------------------------------------
(* Null identifiers *)

\* the onboarding rows and the deposit rows whose identifiers are both present
FullOnboarding == {i \in DOMAIN onboarding_df.rows :
                      /\ ~isna(OnbCustomer(onboarding_df.rows[i]))
                      /\ ~isna(OnbAgent(onboarding_df.rows[i]))}

FullDeposits == {i \in DOMAIN deposit_df.rows :
                    /\ ~isna(DepCustomer(deposit_df.rows[i]))
                    /\ ~isna(DepAgent(deposit_df.rows[i]))}

\* C22: a null identifier is normalised to null, and a record whose customer
\* or agent identifier is null is joined with no record and attributed to no
\* agent: every row of Report 1 is the customer and the agent of an
\* onboarding row that has both, every attribution of Report 2 the customer
\* and the agent of a deposit row that has both
C22_NullIdentifiers ==
    Processed =>
        /\ isna(clean_mobile_number(NaN))
        /\ isna(clean_mobile_for_report2(NaN))
        /\ \A r \in DOMAIN R1Rows :
              /\ isna(safe_str_access(NaN)) \/ R1Rows[r].dsa_mobile # safe_str_access(NaN)
              /\ \E i \in FullOnboarding :
                    /\ Canon(OnbCustomer(onboarding_df.rows[i])) = Canon(R1Rows[r].customer_mobile)
                    /\ Canon(OnbAgent(onboarding_df.rows[i])) = Canon(R1Rows[r].dsa_mobile)
        /\ \A e \in R2Entries :
              \E i \in FullDeposits :
                  /\ Canon(DepCustomer(deposit_df.rows[i])) = Canon(e.data.customer_mobile)
                  /\ Canon(DepAgent(deposit_df.rows[i])) = Canon(e.dsa_mobile)

----------------------------------------------------------------------------
(* No result of an earlier run *)

\* filtered_payment_report = st.session_state.payment_report_data: the ledger
\* the payment tab shows when no filter is applied
ShownLedger == IF payment_report_data = EmptyDict THEN <<>> ELSE payment_report_data

\* C23: after any sequence of uploads, the results stored and shown derive
\* from the latest upload: Report 1 and Report 2 are the reports of the
\* tables uploaded last, and the ledger shown is the payment report of
\* exactly these two results; nothing of an earlier upload survives.
C23_LatestRunOnly ==
    Generated =>
        /\ report_1_data = process_report_1(onboarding_df, ticket_df, deposit_df, scan_df)
        /\ report_2_data = process_report_2(onboarding_df, deposit_df, ticket_df, scan_df)
        /\ ShownLedger = generate_payment_report(report_1_data, report_2_data)

----------------------------------------------------------------------------
(* Activity sums *)

\* C24: for every customer of the report, the summed ticket amount and the
\* summed scan amount are at least 0, whatever the amount cells of the rows
\* are; a cell that is no number counts 0.
C24_NonNegativeSums ==
    Processed =>
        /\ \A i \in DOMAIN report_1_data.onboarded_customers :
              /\ report_1_data.onboarded_customers[i].ticket_amount >= 0
              /\ report_1_data.onboarded_customers[i].scan_amount >= 0
        /\ \A r \in DOMAIN R1Rows :
              R1Rows[r].ticket_amount >= 0 /\ R1Rows[r].scan_amount >= 0

----------------------------------------------------------------------------
(* Row layout *)

SummaryFields == {"customer_count", "deposit_count", "ticket_count", "scan_count", "payment"}

\* the rows of each agent are contiguous and ascend by customer; the first
\* of them carries the summary fields and the others carry blanks
RowLayout(rows) ==
    \A a \in {rows[i].dsa_mobile : i \in DOMAIN rows} \ {Blank} :
        LET mine == {i \in DOMAIN rows : rows[i].dsa_mobile = a}
        IN  /\ \A i \in mine : \A k \in mine : \A j \in i..k : j \in mine
            /\ \A i \in mine : \A k \in mine :
                  i < k => StrLess(rows[i].customer_mobile, rows[k].customer_mobile)
            /\ \A i \in mine : \A f \in SummaryFields :
                  IF \A k \in mine : i <= k
                  THEN rows[i][f] # Blank
                  ELSE rows[i][f] = Blank

\* C25: in both report tables the rows of an agent are contiguous and sorted
\* ascending by customer identifier; exactly the first of them carries the
\* summary fields (customer count, deposit, ticket and scan counts, payment)
\* and every other row of the agent carries empty summary fields.
C25_RowLayout ==
    Processed =>
        /\ RowLayout(report_1_data.qualified_customers)
        /\ RowLayout(report_2_data.report_2_results)

\* C25 witness: an agent of Report 2 has two listed customers whose deposits
\* were uploaded in descending order of the customer
C25_Witness ==
    /\ Processed
    /\ \E r \in DOMAIN R2Rows : R2Rows[r].customer_count = Num(2)
    /\ Len(deposit_df.rows) = 2
    /\ StrLess(Canon(DepCustomer(deposit_df.rows[2])), Canon(DepCustomer(deposit_df.rows[1])))
    /\ DepAgent(deposit_df.rows[1]) = DepAgent(deposit_df.rows[2])

----------------------------------------------------------------------------
(* Mutual exclusion of the reports *)

\* C26: within one run no customer is paid for in both reports: a customer
\* listed in Report 1 under any agent is not listed in Report 2 under any
\* agent.
C26_MutualExclusion ==
    Processed =>
        \A r \in DOMAIN R1Rows : \A q \in DOMAIN R2Rows :
            Canon(R1Rows[r].customer_mobile) # Canon(R2Rows[q].customer_mobile)

----------------------------------------------------------------------------
(* One ledger row per agent *)

\* C27: an agent who earns in both reports is keyed by the same identifier in
\* Report 1 and in Report 2, so the ledger holds both payments in one row:
\* no two agent rows of the ledger have the same canonical identifier.
C27_OneLedgerRow ==
    (Generated /\ Processed) =>
        /\ \A a \in PaidAgents(R1Rows) : \A b \in PaidAgents(R2Rows) :
              Canon(a) = Canon(b) => a = b
        /\ \A i \in DOMAIN LedgerAgentRows : \A j \in DOMAIN LedgerAgentRows :
              Canon(LedgerAgentRows[i].DSA_Mobile) = Canon(LedgerAgentRows[j].DSA_Mobile)
                  => i = j

----------------------------------------------------------------------------
(* The onboarding agent of a customer *)

\* C28: for a customer with several onboarding records that name different
\* agents, the agent Report 1 attributes the customer to is the agent that
\* the onboarding map of Report 2 holds for the customer.
C28_SameOnboardingAgent ==
    Processed =>
        \A i \in DOMAIN report_1_data.onboarded_customers :
            LET row == report_1_data.onboarded_customers[i]
                customer == clean_mobile_for_report2(row.customer_mobile)
            IN  customer \in DOMAIN report_2_data.onboarding_map =>
                    report_2_data.onboarding_map[customer]
                        = clean_mobile_for_report2(row.dsa_mobile)

----------------------------------------------------------------------------
(* The caller's tables *)

\* a run of the reports leaves the four uploaded tables as they were
TablesUnchanged ==
    /\ onboarding_df' = onboarding_df
    /\ deposit_df' = deposit_df
    /\ ticket_df' = ticket_df
    /\ scan_df' = scan_df

\* Report 2 of the run is Report 2 of the tables as they were uploaded
Report2Unaffected ==
    report_2_data' = stored(report_2_data,
        process_report_2(onboarding_df, deposit_df, ticket_df, scan_df))

\* running the reports again on the tables gives the stored results again
RerunSame ==
    /\ report_1_data' = stored(report_1_data',
          process_report_1(onboarding_df', ticket_df', deposit_df', scan_df'))
    /\ report_2_data' = stored(report_2_data',
          process_report_2(onboarding_df', deposit_df', ticket_df', scan_df'))

\* C29: process_report_1 and process_report_2 leave the caller's tables as
\* they are (headers, columns, cells), so Report 2 of a run is the same as
\* Report 2 of the uploaded tables without Report 1 before it, and running
\* either report again on the tables gives the same result.
C29_TablesUnchanged ==
    [][TablesUnchanged /\ Report2Unaffected /\ RerunSame]_vars

----------------------------------------------------------------------------
(* The identifier columns of Report 2 *)

\* C30: whenever Report 2 resolves its columns, the deposit column taken as
\* the customer identifier differs from the one taken as the agent
\* identifier, and the onboarding customer column differs from the
\* onboarding agent column, for every header set and column order.
C30_DistinctColumns ==
    report_2_data # EmptyDict =>
        LET deposit == r2_deposit_columns[deposit_df.columns]
            onboarding == r2_onboarding_columns[onboarding_df.columns]
        IN  /\ (deposit.customer # None /\ deposit.dsa # None)
                  => deposit.customer # deposit.dsa
            /\ (onboarding.customer # None /\ onboarding.dsa # None)
                  => onboarding.customer # onboarding.dsa

============================================================================
